---- MODULE Spec2Model ----
(***************************************************************************)
(* Analytics engine of the YKS exam tracking system: the per-subject net   *)
(* statistics and trend analyses (analysis/net_analyzer.py) and the topic  *)
(* frequency index, topic trends and study plan                            *)
(* (analysis/topic_analyzer.py), and the missing-value step of the data    *)
(* cleaner (data_cleaner.py) with the configuration list it shares.        *)
(*                                                                         *)
(* Numbers.  Net scores, targets and every derived quantity (means,        *)
(* slopes, gaps) are exact rationals <<p, q>> with q > 0 in lowest terms;  *)
(* floating-point rounding is not modelled.  A missing cell (NaN) is the   *)
(* empty sequence, a present value v is <<v>>.                             *)
(***************************************************************************)
EXTENDS Integers, Sequences, FiniteSets, TLC

VARIABLES df, precomputed, result, config

vars == <<df, precomputed, result, config>>

-----------------------------------------------------------------------------
(* Bounds of the model *)

MaxVec == 10
PlanExams == 3
MaxTopicsBound == 2
MaxExams == 3
MaxRows == 3
RankRows == 2
MaxWindow == 3
MaxLinear == 5
RunRows == 2
CleanRows == 2
MaxCritical == 4

-----------------------------------------------------------------------------
(* Sequences *)

RECURSIVE SumSeq(_)
SumSeq(s) == IF s = <<>> THEN 0 ELSE Head(s) + SumSeq(Tail(s))

Max2(a, b) == IF a >= b THEN a ELSE b

\* Python's sorted(): a stable sort; Less is the strict order of the key.
StableSort(s, Less(_, _)) ==
    LET n == Len(s)
        pos == [i \in 1..n |->
                  1 + Cardinality({j \in 1..n : Less(s[j], s[i])})
                    + Cardinality({j \in 1..(i - 1) :
                                     ~Less(s[j], s[i]) /\ ~Less(s[i], s[j])})]
    IN  [k \in 1..n |-> s[CHOOSE i \in 1..n : pos[i] = k]]

\* All sequences over S of length 0..n
SeqsUpTo(S, n) == UNION {[1..k -> S] : k \in 0..n}

\* All sequences of length 0..n of pairwise distinct elements of S
DistinctSeqs(S, n) ==
    {s \in SeqsUpTo(S, n) : \A i, j \in 1..Len(s) : i # j => s[i] # s[j]}

-----------------------------------------------------------------------------
(* Missing values *)

NaN == <<>>
Val(v) == <<v>>
IsNaN(c) == c = <<>>

-----------------------------------------------------------------------------
(* The exam table (pandas DataFrame).  A row has a date, an exam name and  *)
(* one cell per net column and per wrong-topic list column.                *)

\* netcols and listcols are the columns in df.columns order
EmptyTable == [netcols |-> <<>>, listcols |-> <<>>, rows |-> <<>>]

\* df.sort_values('Tarih'): ascending by date, rows of equal date keep
\* their order
SortByTarih(rows) == StableSort(rows, LAMBDA a, b : a.Tarih < b.Tarih)

-----------------------------------------------------------------------------
(* Topic analysis (analysis/topic_analyzer.py) *)

\* col_name.replace(' Yanlış Konular_List', ''): the list columns are
\* named by their subject, the suffix is implicit in the model
SubjectOfListColumn(col) == col

\* The index is a dict, kept in insertion order: a sequence of entries
KeyIn(index, key) == \E k \in 1..Len(index) : index[k].key = key
Lookup(index, key) == index[CHOOSE k \in 1..Len(index) : index[k].key = key]
KeysOf(index) == {index[k].key : k \in 1..Len(index)}

\* The (subject, topic) occurrences of the table in scan order: rows in
\* date order, inside a row the list columns in column order, inside a
\* list the topics in list order.  Each element is <<row index, key>>.
RECURSIVE OccurrencesOfList(_, _, _)
OccurrencesOfList(i, col, topics) ==
    IF topics = <<>> THEN <<>>
    ELSE <<[i |-> i, key |-> <<SubjectOfListColumn(col), Head(topics)>>]>>
         \o OccurrencesOfList(i, col, Tail(topics))

RECURSIVE OccurrencesOfRow(_, _, _)
OccurrencesOfRow(i, row, cols) ==
    IF cols = <<>> THEN <<>>
    ELSE LET cell == row.lists[Head(cols)]
         IN  (IF IsNaN(cell) THEN <<>>
              ELSE OccurrencesOfList(i, Head(cols), cell[1]))
             \o OccurrencesOfRow(i, row, Tail(cols))

RECURSIVE OccurrencesFrom(_, _, _)
OccurrencesFrom(i, sorted, cols) ==
    IF i > Len(sorted) THEN <<>>
    ELSE OccurrencesOfRow(i, sorted[i], cols)
         \o OccurrencesFrom(i + 1, sorted, cols)

\* all_topic_data[key]['appearances'][i] = 1 on a defaultdict
RECURSIVE Scan(_, _, _)
Scan(index, occs, fresh) ==
    IF occs = <<>> THEN index
    ELSE LET o == Head(occs)
             withKey == IF KeyIn(index, o.key) THEN index
                        ELSE Append(index, [fresh EXCEPT !.key = o.key])
             marked == [k \in 1..Len(withKey) |->
                          IF withKey[k].key = o.key
                          THEN [withKey[k] EXCEPT !.appearances[o.i] = 1]
                          ELSE withKey[k]]
         IN  Scan(marked, Tail(occs), fresh)

\* a variant that scans the rows in table order
_precompute_unsorted(table) == table.rows

_precompute_sorted(table) == SortByTarih(table.rows)

_precompute_all_topic_trends(table) ==
    LET sorted == _precompute_sorted(table)
        n == Len(sorted)
        fresh == [key |-> <<"", "">>,
                  appearances |-> [i \in 1..n |-> 0],
                  dates |-> [i \in 1..n |-> sorted[i].Tarih],
                  exam_names |-> [i \in 1..n |-> sorted[i].Deneme]]
    IN  Scan(<<>>, OccurrencesFrom(1, sorted, table.listcols), fresh)

\* Labels of get_topic_trend_by_exam
VeriYok == "Veri Yok"
HicTekrarlanmamis == "Hic Tekrarlanmamis"
Sabit == "Sabit"
Gelisiyor == "Gelisiyor (Son zamanlarda tekrarlanmamis)"
Tekrarliyor == "Tekrarliyor (Sik sik yanlis yapiliyor)"
Kotulesiyor == "Kotulesiyor (Son zamanlarda daha sik tekrarlanmis)"

\* np.where(appearances == 1)[0]: the 0-based positions of the 1s
RECURSIVE IndicesFrom(_, _)
IndicesFrom(appearances, k) ==
    IF k > Len(appearances) THEN <<>>
    ELSE (IF appearances[k] = 1 THEN <<k - 1>> ELSE <<>>)
         \o IndicesFrom(appearances, k + 1)

\* np.diff
Diff(s) == [k \in 1..(Len(s) - 1) |-> s[k + 1] - s[k]]

\* appearances[-w:] for 1 <= w
LastN(s, w) == IF w >= Len(s) THEN s
               ELSE [k \in 1..w |-> s[Len(s) - w + k]]

\* a variant with a window of half the exams
RecentWindow_half(total_exams) == Max2(1, total_exams \div 2)

RecentWindow(total_exams) == Max2(1, total_exams \div 4)

\* indices[-1] > total_exams * 0.75 and
\* np.mean(np.diff(indices)) < total_exams / frequency
RepeatingCondition(indices, total_exams, frequency) ==
    /\ 4 * indices[Len(indices)] > 3 * total_exams
    /\ SumSeq(Diff(indices)) * frequency < total_exams * (frequency - 1)

\* recent_count / recent_exams_window > frequency / total_exams
WorseningCondition(recent_count, window, frequency, total_exams) ==
    recent_count * total_exams > frequency * window

\* a variant in which the density test is nested under the repeating test
TopicTrendLabel_nested(appearances) ==
    LET indices == IndicesFrom(appearances, 1)
        total_exams == Len(appearances)
        frequency == Len(indices)
        window == RecentWindow(total_exams)
        recent_count == SumSeq(LastN(appearances, window))
    IN  IF recent_count = 0 THEN Gelisiyor
        ELSE IF frequency > 1
                /\ RepeatingCondition(indices, total_exams, frequency)
        THEN IF WorseningCondition(recent_count, window, frequency,
                                   total_exams)
             THEN Kotulesiyor ELSE Tekrarliyor
        ELSE Sabit

TopicTrendLabel(appearances) ==
    LET indices == IndicesFrom(appearances, 1)
        total_exams == Len(appearances)
        frequency == Len(indices)
        window == RecentWindow(total_exams)
        recent_count == SumSeq(LastN(appearances, window))
        t0 == Sabit
        t1 == IF RepeatingCondition(indices, total_exams, frequency)
              THEN Tekrarliyor ELSE t0
        t2 == IF WorseningCondition(recent_count, window, frequency,
                                    total_exams)
              THEN Kotulesiyor ELSE t1
    IN  IF recent_count = 0 THEN Gelisiyor
        ELSE IF frequency > 1 THEN t2
        ELSE t0

\* The index is a defaultdict: every entry is made by the default factory
\* of _precompute_all_topic_trends, with one flag, date and exam name per
\* exam of the table, so the entry a missing key would get has the length
\* of the entries there are.
DefaultEntry(index, key) ==
    LET n == IF index = <<>> THEN 0 ELSE Len(index[1].appearances)
    IN  [key |-> key,
         appearances |-> [i \in 1..n |-> 0],
         dates |-> IF index = <<>> THEN <<>> ELSE index[1].dates,
         exam_names |-> IF index = <<>> THEN <<>> ELSE index[1].exam_names]

\* precomputed_data[key]: the entry read, and the index after the read
GetItem(index, key) ==
    IF KeyIn(index, key) THEN Lookup(index, key) ELSE DefaultEntry(index, key)
IndexAfterGetItem(index, key) ==
    IF KeyIn(index, key) THEN index
    ELSE Append(index, DefaultEntry(index, key))

\* lines 87-123: the result for the entry read from the index
TopicTrendOf(topic_data, subject, topic) ==
    LET appearances == topic_data.appearances
        indices == IndicesFrom(appearances, 1)
    IN  IF Len(indices) = 0 THEN [trend |-> HicTekrarlanmamis]
        ELSE [konu |-> topic,
              ders |-> subject,
              frekans |-> Len(indices),
              toplam_deneme |-> Len(appearances),
              son_gorulme_index |-> indices[Len(indices)],
              trend |-> TopicTrendLabel(appearances),
              deneme_adlari |-> [k \in 1..Len(indices) |->
                                  topic_data.exam_names[indices[k] + 1]],
              tarihler |-> [k \in 1..Len(indices) |->
                              topic_data.dates[indices[k] + 1]]]

\* a variant without the membership test of line 84
get_topic_trend_by_exam_unchecked(precomputed_data, subject, topic) ==
    TopicTrendOf(GetItem(precomputed_data, <<subject, topic>>), subject, topic)

get_topic_trend_by_exam(precomputed_data, subject, topic) ==
    LET key == <<subject, topic>> IN
    IF ~KeyIn(precomputed_data, key) THEN [trend |-> VeriYok]
    ELSE TopicTrendOf(GetItem(precomputed_data, key), subject, topic)

\* the index after the call: a membership test adds nothing, and the read
\* of line 87 happens only for a key that is there
IndexAfterTrend_unchecked(precomputed_data, subject, topic) ==
    IndexAfterGetItem(precomputed_data, <<subject, topic>>)

IndexAfterTrend(precomputed_data, subject, topic) ==
    LET key == <<subject, topic>> IN
    IF ~KeyIn(precomputed_data, key) THEN precomputed_data
    ELSE IndexAfterGetItem(precomputed_data, key)

\* Config.TYT.SUBJECTS (exam_type is "TYT")
TYT_SUBJECTS == <<"Turkce", "Matematik", "Fen", "Sosyal">>

\* Priority labels; Python orders the strings by their first code point
Yuksek == "Yuksek"
Orta == "Orta"
Dusuk == "Dusuk"
\* a variant that orders the labels by their names, without the leading
\* symbol
PriorityCodePoint_names(p) ==
    CASE p = Dusuk -> 68
      [] p = Orta -> 79
      [] p = Yuksek -> 89

PriorityCodePoint(p) ==
    CASE p = Yuksek -> 128308
      [] p = Orta -> 128993
      [] p = Dusuk -> 128994

PlaceholderPlan ==
    [s \in {"Genel"} |->
        <<[sira |-> 1, konu |-> "Harika! Calisilacak acil bir konu bulunamadi.",
           oncelik |-> Dusuk, frekans |-> 0, son_durum |-> "OK"]>>]

\* all_topics[topic] += count for the entries with count > 0: a dict from
\* topic name to count in insertion order, as a sequence of [topic, count]
RECURSIVE AllTopics(_, _)
AllTopics(index, acc) ==
    IF index = <<>> THEN acc
    ELSE LET topic == Head(index).key[2]
             count == SumSeq(Head(index).appearances)
             known == \E k \in 1..Len(acc) : acc[k].topic = topic
             next == IF count <= 0 THEN acc
                     ELSE IF known
                     THEN [k \in 1..Len(acc) |->
                             IF acc[k].topic = topic
                             THEN [acc[k] EXCEPT !.count = @ + count]
                             ELSE acc[k]]
                     ELSE Append(acc, [topic |-> topic, count |-> count])
         IN  AllTopics(Tail(index), next)

\* subjects_of_topics[topic] = subject: the last entry with count > 0 wins
SubjectOfTopic(index, topic) ==
    LET hits == {k \in 1..Len(index) :
                    /\ index[k].key[2] = topic
                    /\ SumSeq(index[k].appearances) > 0}
        last == CHOOSE k \in hits : \A j \in hits : j <= k
    IN  index[last].key[1]

\* sorted(all_topics.items(), key=lambda x: x[1], reverse=True)
SortedTopics(index) ==
    StableSort(AllTopics(index, <<>>), LAMBDA a, b : a.count > b.count)

Priority(freq) ==
    IF freq = 1 THEN Dusuk
    ELSE IF freq < 3 THEN Orta
    ELSE Yuksek

\* the loop over enumerate(subject_topics) with its break
SubjectPlanItems(index, subject, subject_topics, max_topics) ==
    LET taken == IF max_topics <= 0 THEN 0
                 ELSE IF Len(subject_topics) < max_topics
                 THEN Len(subject_topics) ELSE max_topics
    IN  [i \in 1..taken |->
           [konu |-> subject_topics[i].topic,
            oncelik |-> Priority(subject_topics[i].count),
            frekans |-> subject_topics[i].count,
            son_durum |->
                get_topic_trend_by_exam(index, subject,
                                        subject_topics[i].topic).trend,
            sira |-> i]]

\* sorted(subject_plan_items, key=(priority, -freq)) and the renumbering
SortedPlan(items) ==
    LET sorted == StableSort(items, LAMBDA a, b :
                     \/ PriorityCodePoint(a.oncelik) < PriorityCodePoint(b.oncelik)
                     \/ /\ a.oncelik = b.oncelik
                        /\ -a.frekans < -b.frekans)
    IN  [idx \in 1..Len(sorted) |-> [sorted[idx] EXCEPT !.sira = idx]]

SubjectTopics(index, subject) ==
    SelectSeq(SortedTopics(index),
              LAMBDA item : SubjectOfTopic(index, item.topic) = subject)

SubjectsToProcess(focus_subjects) ==
    IF focus_subjects # <<>> THEN focus_subjects ELSE TYT_SUBJECTS

\* lines 165-195: final_study_plan, a dict from subject to its list
StudyPlanOf(index, focus_subjects, max_topics_per_subject) ==
    LET todo == SubjectsToProcess(focus_subjects)
        items(s) == SubjectPlanItems(index, s, SubjectTopics(index, s),
                                     max_topics_per_subject)
        emitted == {todo[k] : k \in 1..Len(todo)}
    IN  [s \in {x \in emitted : items(x) # <<>>} |-> SortedPlan(items(s))]

\* a variant without the placeholder of lines 162-163
generate_study_plan_unguarded(index, focus_subjects, max_topics_per_subject) ==
    StudyPlanOf(index, focus_subjects, max_topics_per_subject)

generate_study_plan(index, focus_subjects, max_topics_per_subject) ==
    IF AllTopics(index, <<>>) = <<>> THEN PlaceholderPlan
    ELSE StudyPlanOf(index, focus_subjects, max_topics_per_subject)

\* the keys generate_study_plan passes to get_topic_trend_by_exam (line
\* 181), in call order
RECURSIVE PlanLookups(_, _, _)
PlanLookups(index, todo, max_topics) ==
    IF todo = <<>> THEN <<>>
    ELSE LET s == Head(todo)
             items == SubjectPlanItems(index, s, SubjectTopics(index, s),
                                       max_topics)
         IN  [k \in 1..Len(items) |-> <<s, items[k].konu>>]
             \o PlanLookups(index, Tail(todo), max_topics)

RECURSIVE IndexAfterLookups(_, _)
IndexAfterLookups(index, keys) ==
    IF keys = <<>> THEN index
    ELSE IndexAfterLookups(IndexAfterTrend(index, Head(keys)[1], Head(keys)[2]),
                           Tail(keys))

\* the index after generate_study_plan: the loop of line 155 iterates
\* items() without assignment, the lookups go through
\* get_topic_trend_by_exam
IndexAfterPlan(index, focus_subjects, max_topics_per_subject) ==
    IF AllTopics(index, <<>>) = <<>> THEN index
    ELSE IndexAfterLookups(index,
             PlanLookups(index, SubjectsToProcess(focus_subjects),
                         max_topics_per_subject))

-----------------------------------------------------------------------------
(* Exact rationals <<p, q>>, q > 0 *)

Abs(x) == IF x < 0 THEN -x ELSE x

RECURSIVE GCD(_, _)
GCD(a, b) == IF b = 0 THEN a ELSE GCD(b, a % b)

Rat(p, q) ==
    LET g == GCD(Abs(p), Abs(q))
        sgn == IF q < 0 THEN -1 ELSE 1
    IN  IF p = 0 THEN <<0, 1>> ELSE <<sgn * (p \div g), sgn * (q \div g)>>

RInt(n) == <<n, 1>>
RNeg(a) == <<-a[1], a[2]>>
RAdd(a, b) == Rat(a[1] * b[2] + b[1] * a[2], a[2] * b[2])
RSub(a, b) == Rat(a[1] * b[2] - b[1] * a[2], a[2] * b[2])
RMul(a, b) == Rat(a[1] * b[1], a[2] * b[2])
RDiv(a, b) == Rat(a[1] * b[2], a[2] * b[1])
RLt(a, b) == a[1] * b[2] < b[1] * a[2]
RLe(a, b) == a[1] * b[2] <= b[1] * a[2]
REq(a, b) == a[1] * b[2] = b[1] * a[2]
RIsZero(a) == a[1] = 0

\* np.ceil of a rational, as an integer
RCeil(a) == IF a[1] % a[2] = 0 THEN a[1] \div a[2] ELSE (a[1] \div a[2]) + 1
RFloor(a) == a[1] \div a[2]

RECURSIVE RSum(_)
RSum(s) == IF s = <<>> THEN <<0, 1>> ELSE RAdd(Head(s), RSum(Tail(s)))

\* Series.mean(): NaN (the empty sequence) for no element
RMean(s) == IF s = <<>> THEN NaN ELSE Val(RDiv(RSum(s), RInt(Len(s))))

RSorted(s) == StableSort(s, RLt)

\* Series.quantile(q) of the sorted values v, linear interpolation,
\* q = qn/qd; NaN for no element
Interpolate(v, pos) ==
    LET lo == RFloor(pos)
        frac == RSub(pos, RInt(lo))
    IN  IF RIsZero(frac) THEN Val(v[lo + 1])
        ELSE Val(RAdd(v[lo + 1], RMul(frac, RSub(v[lo + 2], v[lo + 1]))))

SortedQuantile(v, qn, qd) ==
    IF v = <<>> THEN NaN ELSE Interpolate(v, Rat((Len(v) - 1) * qn, qd))

RQuantile(s, qn, qd) == SortedQuantile(RSorted(s), qn, qd)

\* Series.median()
RMedian(s) == RQuantile(s, 1, 2)

\* Series.var() with ddof = 1 (the square of Series.std()); NaN for fewer
\* than two elements
RVar(s) ==
    IF Len(s) < 2 THEN NaN
    ELSE LET m == RMean(s)[1]
             dev == [k \in 1..Len(s) |-> RSub(s[k], m)]
             sq == [k \in 1..Len(s) |-> RMul(dev[k], dev[k])]
         IN  Val(RDiv(RSum(sq), RInt(Len(s) - 1)))

\* a.std() < b.std(); a comparison with NaN is False
\* a variant with recent.std() <= previous.std()
StdLess_nonstrict(va, vb) == ~IsNaN(va) /\ ~IsNaN(vb) /\ RLe(va[1], vb[1])

StdLess(va, vb) == ~IsNaN(va) /\ ~IsNaN(vb) /\ RLt(va[1], vb[1])


-----------------------------------------------------------------------------
(* Net analysis (analysis/net_analyzer.py) *)

\* Config.Analysis.TREND_STRONG_SLOPE = 0.5, TREND_LIGHT_SLOPE = 0.1
TREND_STRONG_SLOPE == <<1, 2>>
TREND_LIGHT_SLOPE == <<1, 10>>
\* the bands of calculate_improvement_rate: 5, 2, -2
IMPROVEMENT_STRONG == <<5, 1>>
IMPROVEMENT_LIGHT == <<2, 1>>
REGRESSION_LIMIT == <<-2, 1>>
TotalSubject == "Toplam Net"

\* an empty dict / an empty DataFrame
Empty == [kind |-> "empty"]
IsEmpty(r) == r.kind = "empty"
\* an exception leaving the method
Raised(e) == [kind |-> "raise", error |-> e]
IsRaised(r) == r.kind = "raise"

HasColumn(table, subject) ==
    \E k \in 1..Len(table.netcols) : table.netcols[k] = subject

\* rows[subject].dropna() as a sequence of rationals, in the order of rows
RECURSIVE DropNa(_, _)
DropNa(rows, subject) ==
    IF rows = <<>> THEN <<>>
    ELSE (IF IsNaN(Head(rows).net[subject]) THEN <<>>
          ELSE <<Head(rows).net[subject][1]>>)
         \o DropNa(Tail(rows), subject)

\* the rows calculate_statistics reads: df[subject] in table order
StatisticsRows(table) == table.rows

\* a variant that takes a missing deviation for 0
CvOf_nanzero(m, v) ==
    IF RIsZero(m) \/ IsNaN(v)
    THEN [nan |-> FALSE, neg |-> FALSE, sq |-> <<0, 1>>]
    ELSE [nan |-> FALSE, neg |-> m[1] < 0,
          sq |-> RMul(RDiv(v[1], RMul(m, m)), RInt(10000))]

\* the coefficient of variation std / mean * 100 of a mean m and a
\* variance v, as [nan, neg, sq]: its sign and its square
CvOf(m, v) ==
    IF RIsZero(m) THEN [nan |-> FALSE, neg |-> FALSE, sq |-> <<0, 1>>]
    ELSE IF IsNaN(v) THEN [nan |-> TRUE, neg |-> FALSE, sq |-> <<0, 1>>]
    ELSE [nan |-> FALSE, neg |-> m[1] < 0,
          sq |-> RMul(RDiv(v[1], RMul(m, m)), RInt(10000))]

\* a variant with cv <= k
CvLess_nonstrict(cv, k) ==
    ~cv.nan /\ (RLe(cv.sq, RInt(k * k)) \/ (cv.neg /\ ~RIsZero(cv.sq)))

\* cv < k for an integer k > 0; False for NaN
CvLess(cv, k) == ~cv.nan /\ (RLt(cv.sq, RInt(k * k)) \/ (cv.neg /\ ~RIsZero(cv.sq)))
CvIsZero(cv) == ~cv.nan /\ RIsZero(cv.sq)

\* stats_dict of the non-missing values data, v being data in ascending
\* order and q25, q75 its quartiles
StatsDict(data, v, q25, q75) ==
    [kind |-> "stats",
     count |-> Len(data),
     mean |-> RMean(data)[1],
     median |-> SortedQuantile(v, 1, 2)[1],
     var |-> RVar(data),
     min |-> v[1],
     max |-> v[Len(v)],
     q25 |-> q25,
     q75 |-> q75,
     iqr |-> RSub(q75, q25),
     cv |-> CvOf(RMean(data)[1], RVar(data)),
     range |-> RSub(v[Len(v)], v[1]),
     latest |-> data[Len(data)],
     first |-> data[1],
     has_skewness |-> Len(data) >= 3]

\* the statistics of a series of non-missing values
StatisticsOf(data, v) ==
    IF Len(data) = 0 THEN Empty
    ELSE StatsDict(data, v, SortedQuantile(v, 1, 4)[1],
                   SortedQuantile(v, 3, 4)[1])

calculate_statistics(table, subject) ==
    IF ~HasColumn(table, subject) THEN Empty
    ELSE StatisticsOf(DropNa(StatisticsRows(table), subject),
                      RSorted(DropNa(StatisticsRows(table), subject)))

\* 'Net' in col, for the names of the numeric columns of the model: all
\* but the count of correct answers
CorrectColumn == "Matematik Dogru"
ContainsNet(col) == col # CorrectColumn

\* a variant that takes every numeric column
NetColumns_all(table) == table.netcols

\* [col for col in df.columns if 'Net' in col]
NetColumns(table) == SelectSeq(table.netcols, ContainsNet)

\* the rows of the statistics DataFrame, in column order
get_all_subjects_statistics(table) ==
    SelectSeq([k \in 1..Len(NetColumns(table)) |->
                 [subject |-> NetColumns(table)[k],
                  stats |-> calculate_statistics(table, NetColumns(table)[k])]],
              LAMBDA r : ~IsEmpty(r.stats))

\* Squares of the two-sided 5% critical values of Student's t, times 100
\* and rounded down, by degrees of freedom: p_value <
\* TREND_P_VALUE_THRESHOLD (0.05) iff t * t exceeds the critical square
TCritSq == <<16144, 1851, 1012, 770, 660, 598, 559, 531>>

\* whether f / g > TCritSq[d] / 100 for a rational f >= 0 and g > 0: the
\* quotient is compared in hundredths
ExceedsCritical(f, g, d) ==
    LET q == RDiv(f, g)
        hundredths == (q[1] * 100) \div q[2]
    IN  hundredths > TCritSq[d]

\* scipy.stats.linregress(x, y) for x = 0..n-1, n >= 2: slope and intercept
\* exactly; of the p-value, whether it is below the threshold
\* whether the p-value of the fit of y with the given r^2 is below the
\* threshold: t * t = df * r^2 / (1 - r^2); a perfect fit has p ~ 0
PBelow(y, r_squared) ==
    IF Len(y) = 2 THEN ~REq(y[1], y[2])
    ELSE IF REq(r_squared, <<1, 1>>) THEN TRUE
    ELSE ExceedsCritical(RMul(RInt(Len(y) - 2), r_squared),
                         RSub(<<1, 1>>, r_squared), Len(y) - 2)

\* the fit from the sums sx, sy and the (n * n)-fold covariances
FitOf(y, sx, sy, ssxm, ssxym, ssym) ==
    LET slope == RDiv(ssxym, ssxm)
        r_squared == IF RIsZero(ssym) THEN <<0, 1>>
                     ELSE RDiv(RMul(ssxym, ssxym), RMul(ssxm, ssym))
    IN  [slope |-> slope,
         intercept |-> RDiv(RSub(sy, RMul(slope, sx)), RInt(Len(y))),
         r_squared |-> r_squared,
         p_below |-> PBelow(y, r_squared)]

linregress(y) ==
    LET n == Len(y)
        x == [k \in 1..n |-> k - 1]
        sx == SumSeq(x)
        sxx == SumSeq([k \in 1..n |-> x[k] * x[k]])
        sy == RSum(y)
        sxy == RSum([k \in 1..n |-> RMul(RInt(x[k]), y[k])])
        syy == RSum([k \in 1..n |-> RMul(y[k], y[k])])
    IN  FitOf(y, RInt(sx), sy,
              RInt(n * sxx - sx * sx),
              RSub(RMul(RInt(n), sxy), RMul(RInt(sx), sy)),
              RSub(RMul(RInt(n), syy), RMul(sy, sy)))

StrongIncrease == "Strong Increase"
SlightIncrease == "Slight Increase"
StrongDecrease == "Strong Decrease"
SlightDecrease == "Slight Decrease"
Stable == "Stable"
Insignificant == "Statistically insignificant"
Uncertain == "Uncertain"

\* a variant with a non-strict strong-slope bound
TrendCategory_nonstrict(p_below, slope) ==
    IF p_below
    THEN IF RLe(TREND_STRONG_SLOPE, slope) THEN StrongIncrease
         ELSE IF RLt(TREND_LIGHT_SLOPE, slope) THEN SlightIncrease
         ELSE IF RLt(slope, RNeg(TREND_STRONG_SLOPE)) THEN StrongDecrease
         ELSE IF RLt(slope, RNeg(TREND_LIGHT_SLOPE)) THEN SlightDecrease
         ELSE Stable
    ELSE Insignificant

\* the trend category of a fit
TrendCategory(p_below, slope) ==
    IF p_below
    THEN IF RLt(TREND_STRONG_SLOPE, slope) THEN StrongIncrease
         ELSE IF RLt(TREND_LIGHT_SLOPE, slope) THEN SlightIncrease
         ELSE IF RLt(slope, RNeg(TREND_STRONG_SLOPE)) THEN StrongDecrease
         ELSE IF RLt(slope, RNeg(TREND_LIGHT_SLOPE)) THEN SlightDecrease
         ELSE Stable
    ELSE Insignificant

\* a variant that reads the rows in table order
TrendRows_unsorted(table) == table.rows

\* the rows get_progression_trend reads: df.sort_values('Tarih')
TrendRows(table) == SortByTarih(table.rows)

\* a variant that predicts the value of the last exam
TrendInfo_last(y, fit) ==
    [kind |-> "trend",
     slope |-> fit.slope,
     intercept |-> fit.intercept,
     r_squared |-> fit.r_squared,
     p_below |-> fit.p_below,
     trend |-> TrendCategory(fit.p_below, fit.slope),
     next_prediction |->
         RAdd(RMul(fit.slope, RInt(Len(y) - 1)), fit.intercept),
     total_improvement |-> RSub(y[Len(y)], y[1]),
     improvement_percentage |->
         IF ~RIsZero(y[1])
         THEN RMul(RDiv(RSub(y[Len(y)], y[1]), y[1]), RInt(100))
         ELSE <<0, 1>>]

\* trend_info of the values y and their fit
TrendInfo(y, fit) ==
    [kind |-> "trend",
     slope |-> fit.slope,
     intercept |-> fit.intercept,
     r_squared |-> fit.r_squared,
     p_below |-> fit.p_below,
     trend |-> TrendCategory(fit.p_below, fit.slope),
     next_prediction |-> RAdd(RMul(fit.slope, RInt(Len(y))), fit.intercept),
     total_improvement |-> RSub(y[Len(y)], y[1]),
     improvement_percentage |->
         IF ~RIsZero(y[1])
         THEN RMul(RDiv(RSub(y[Len(y)], y[1]), y[1]), RInt(100))
         ELSE <<0, 1>>]

\* the trend of a series of non-missing values in date order
TrendOfSeries(y) == IF Len(y) < 2 THEN Empty ELSE TrendInfo(y, linregress(y))

get_progression_trend(table, subject) ==
    IF ~HasColumn(table, subject) THEN Empty
    ELSE TrendOfSeries(DropNa(TrendRows(table), subject))

get_all_subjects_trends(table) ==
    SelectSeq([k \in 1..Len(NetColumns(table)) |->
                 [subject |-> NetColumns(table)[k],
                  trend |-> get_progression_trend(table,
                                                  NetColumns(table)[k])]],
              LAMBDA r : ~IsEmpty(r.trend))

\* data.tail(window) and data.iloc[-2*window:-window] / data.head(window)
Tail_(data, w) == [k \in 1..w |-> data[Len(data) - w + k]]
Head_(data, w) == [k \in 1..w |-> data[k]]
\* a variant that always takes the first w values
PreviousWindow_head(data, w) == Head_(data, w)

PreviousWindow(data, w) ==
    IF Len(data) >= 2 * w
    THEN [k \in 1..w |-> data[Len(data) - 2 * w + k]]
    ELSE Head_(data, w)

\* a variant with a non-strict upper band
Interpretation_nonstrict(absolute_change) ==
    IF RLe(IMPROVEMENT_STRONG, absolute_change) THEN "Great"
    ELSE IF RLt(IMPROVEMENT_LIGHT, absolute_change) THEN "Good"
    ELSE IF RLt(REGRESSION_LIMIT, absolute_change) THEN "Stable performance"
    ELSE "Warning"

Interpretation(absolute_change) ==
    IF RLt(IMPROVEMENT_STRONG, absolute_change) THEN "Great"
    ELSE IF RLt(IMPROVEMENT_LIGHT, absolute_change) THEN "Good"
    ELSE IF RLt(REGRESSION_LIMIT, absolute_change) THEN "Stable performance"
    ELSE "Warning"

\* improvement of the means rm, pm and variances rv, pv of the recent and
\* the previous window
ImprovementOf(rm, pm, rv, pv) ==
    [kind |-> "improvement",
     recent_mean |-> rm,
     previous_mean |-> pm,
     absolute_change |-> RSub(rm, pm),
     percentage_change |->
         IF ~RIsZero(pm) THEN RMul(RDiv(RSub(rm, pm), pm), RInt(100))
         ELSE <<0, 1>>,
     recent_var |-> rv,
     previous_var |-> pv,
     consistency_improved |-> StdLess(rv, pv),
     interpretation |-> Interpretation(RSub(rm, pm))]

\* the improvement of a series of non-missing values in date order
ImprovementOfSeries(data, window) ==
    IF Len(data) < window THEN Empty
    ELSE ImprovementOf(RMean(Tail_(data, window))[1],
                       RMean(PreviousWindow(data, window))[1],
                       RVar(Tail_(data, window)),
                       RVar(PreviousWindow(data, window)))

\* window >= 1
calculate_improvement_rate(table, subject, window) ==
    IF ~HasColumn(table, subject) THEN Empty
    ELSE ImprovementOfSeries(DropNa(SortByTarih(table.rows), subject), window)

\* all_stats_df.drop(index='Toplam Net', errors='ignore')
DropTotal(stats_rows) ==
    SelectSeq(stats_rows, LAMBDA r : r.subject # TotalSubject)

MeansOf(stats_rows) == [k \in 1..Len(stats_rows) |-> stats_rows[k].stats.mean]

\* all_trends_df.loc[subject, 'trend'] if subject in all_trends_df.index
\* else 'Uncertain'
TrendLabelOf(trend_info) ==
    IF IsEmpty(trend_info) THEN Uncertain ELSE trend_info.trend

TrendOf(table, subject) == TrendLabelOf(get_progression_trend(table, subject))

SubjectEntries(table, rows) ==
    [k \in 1..Len(rows) |->
       [subject |-> rows[k].subject,
        mean |-> rows[k].stats.mean,
        latest |-> rows[k].stats.latest,
        trend |-> TrendOf(table, rows[k].subject)]]

\* all_stats_df['mean'] of identify_weak_subjects: the empty DataFrame
\* returned when no column has statistics has no 'mean' column
WeakMeanColumnMissing(all_stats) == all_stats = <<>>

\* a variant that also takes the rows with a mean equal to the median
WeakRows_nonstrict(others, median_of_means) ==
    SelectSeq(others, LAMBDA r :
        ~IsNaN(median_of_means) /\ RLe(r.stats.mean, median_of_means[1]))

\* weak_df: the rows with a mean below median_of_means; a comparison with
\* NaN is False
WeakRows(others, median_of_means) ==
    SelectSeq(others, LAMBDA r :
        ~IsNaN(median_of_means) /\ RLt(r.stats.mean, median_of_means[1]))

\* the weak subjects of the statistics all_stats
WeakOf(table, all_stats) ==
    IF WeakMeanColumnMissing(all_stats) THEN Raised("KeyError")
    ELSE [kind |-> "list",
          items |-> StableSort(
                      SubjectEntries(table,
                          WeakRows(DropTotal(all_stats),
                                   RMedian(MeansOf(DropTotal(all_stats))))),
                      LAMBDA a, b : RLt(a.mean, b.mean))]

identify_weak_subjects(table) ==
    WeakOf(table, get_all_subjects_statistics(table))

\* a variant with a strict threshold
StrongRows_strict(others, threshold) ==
    SelectSeq(others, LAMBDA r : RLt(threshold[1], r.stats.mean))

\* strong_df: the rows with a mean at or above the threshold
StrongRows(others, threshold) ==
    SelectSeq(others, LAMBDA r : RLe(threshold[1], r.stats.mean))

\* the strong subjects of the statistics all_stats
StrongOf(table, all_stats) ==
    IF DropTotal(all_stats) = <<>> THEN [kind |-> "list", items |-> <<>>]
    ELSE [kind |-> "list",
          items |-> StableSort(
                      SubjectEntries(table,
                          StrongRows(DropTotal(all_stats),
                                     RQuantile(MeansOf(DropTotal(all_stats)),
                                               3, 4))),
                      LAMBDA a, b : RLt(b.mean, a.mean))]

identify_strong_subjects(table) ==
    StrongOf(table, get_all_subjects_statistics(table))

ConsistencyOf(subject, stats) ==
    IF IsEmpty(stats) THEN Empty
    ELSE [kind |-> "consistency",
          subject |-> subject,
          cv |-> stats.cv,
          score |-> IF CvLess(stats.cv, 10) THEN 5
                    ELSE IF CvLess(stats.cv, 20) THEN 4
                    ELSE IF CvLess(stats.cv, 30) THEN 3
                    ELSE IF CvLess(stats.cv, 40) THEN 2
                    ELSE 1,
          var |-> stats.var,
          mean |-> stats.mean]

calculate_consistency_score(table, subject) ==
    ConsistencyOf(subject, calculate_statistics(table, subject))

\* a variant that goes on unless both the trend and the statistics are
\* empty: trend_info['next_prediction'] is then a KeyError
PredictionOf_unguarded(subject, trend_info, stats) ==
    IF IsEmpty(trend_info) /\ IsEmpty(stats) THEN Empty
    ELSE IF IsEmpty(trend_info) \/ IsEmpty(stats) THEN Raised("KeyError")
    ELSE [kind |-> "prediction",
          subject |-> subject,
          prediction |-> trend_info.next_prediction,
          confidence |-> 95,
          based_on_exams |-> stats.count,
          latest_net |-> stats.latest]

\* prediction_info of a trend and statistics; the bounds prediction -/+
\* 1.96 * std_error are not represented
PredictionOf(subject, trend_info, stats) ==
    IF IsEmpty(trend_info) \/ IsEmpty(stats) THEN Empty
    ELSE [kind |-> "prediction",
          subject |-> subject,
          prediction |-> trend_info.next_prediction,
          confidence |-> 95,
          based_on_exams |-> stats.count,
          latest_net |-> stats.latest]

predict_next_exam(table, subject) ==
    PredictionOf(subject, get_progression_trend(table, subject),
                 calculate_statistics(table, subject))

TargetExceeded == "Target exceeded"
VeryClose == "Very close to the target"
GoingWell == "Going well, keep it up"
StudyMore == "You need to study more"

\* the slope compare_to_target divides by: present and > 0
PositiveSlope(trend) == ~IsEmpty(trend) /\ RLt(<<0, 1>>, trend.slope)

\* None for no exams_needed is the empty sequence
ExamsNeeded(gap, trend) ==
    IF PositiveSlope(trend) THEN Val(RCeil(RDiv(gap, trend.slope))) ELSE NaN

\* a variant with a strict horizon test
Achievable_strict(gap, trend) ==
    IF PositiveSlope(trend) THEN RLt(gap, RMul(trend.slope, RInt(10)))
    ELSE FALSE

Achievable(gap, trend) ==
    IF PositiveSlope(trend) THEN RLe(gap, RMul(trend.slope, RInt(10)))
    ELSE FALSE

\* a variant that divides by a zero target: the quotient is infinite
GapPercentage_unguarded(gap, target_net) ==
    IF ~RIsZero(target_net) THEN RMul(RDiv(gap, target_net), RInt(100))
    ELSE <<1, 0>>

GapPercentage(gap, target_net) ==
    IF ~RIsZero(target_net) THEN RMul(RDiv(gap, target_net), RInt(100))
    ELSE <<0, 1>>

\* a variant with a non-strict 'very close' bound
TargetStatus_nonstrict(gap, gap_percentage) ==
    IF RLe(gap, <<0, 1>>) THEN TargetExceeded
    ELSE IF RLe(gap_percentage, RInt(10)) THEN VeryClose
    ELSE IF RLt(gap_percentage, RInt(25)) THEN GoingWell
    ELSE StudyMore

TargetStatus(gap, gap_percentage) ==
    IF RLe(gap, <<0, 1>>) THEN TargetExceeded
    ELSE IF RLt(gap_percentage, RInt(10)) THEN VeryClose
    ELSE IF RLt(gap_percentage, RInt(25)) THEN GoingWell
    ELSE StudyMore

\* comparison of the latest value with the target, given the trend
ComparisonOf(target_net, stats, trend) ==
    IF IsEmpty(stats) THEN Empty
    ELSE LET current_net == stats.latest
             gap == RSub(target_net, current_net)
             gap_percentage == GapPercentage(gap, target_net)
         IN  [kind |-> "comparison",
              target |-> target_net,
              current |-> current_net,
              gap |-> gap,
              gap_percentage |-> gap_percentage,
              exams_needed |-> ExamsNeeded(gap, trend),
              achievable |-> Achievable(gap, trend),
              status |-> TargetStatus(gap, gap_percentage)]

compare_to_target(table, target_net, subject) ==
    ComparisonOf(target_net, calculate_statistics(table, subject),
                 get_progression_trend(table, subject))

\* the default window of calculate_improvement_rate
DefaultWindow == 3

\* the sections are evaluated in order; an exception in one leaves the
\* method
ReportOf(table, weak, strong) ==
    IF IsRaised(weak) THEN weak
    ELSE IF IsRaised(strong) THEN strong
    ELSE [kind |-> "report",
          total_exams |-> Len(table.rows),
          overall_stats |-> calculate_statistics(table, TotalSubject),
          subject_stats |-> get_all_subjects_statistics(table),
          trends |-> get_all_subjects_trends(table),
          weak_subjects |-> weak.items,
          strong_subjects |-> strong.items,
          recent_improvement |->
              calculate_improvement_rate(table, TotalSubject, DefaultWindow)]

generate_summary_report(table) ==
    ReportOf(table, identify_weak_subjects(table),
             identify_strong_subjects(table))

-----------------------------------------------------------------------------
(* Data cleaning (data_cleaner.py): handle_missing_values.  The table of   *)
(* the cleaner is raw: the name and the date of a row may be missing.      *)

NameColumn == "Deneme Adi"
DateColumn == "Tarih"

\* Config.Cleaning.CRITICAL_COLUMNS, a class attribute shared by every
\* cleaner
CRITICAL_COLUMNS == <<NameColumn, DateColumn>>
DefaultConfig == [CRITICAL_COLUMNS |-> CRITICAL_COLUMNS]

\* the cell of a row under a column
CellOf(row, col) ==
    IF col = NameColumn THEN row.Deneme
    ELSE IF col = DateColumn THEN row.Tarih
    ELSE row.net[col]

ColumnsOf(table) == {NameColumn, DateColumn}
                       \cup {table.netcols[k] : k \in 1..Len(table.netcols)}

\* a variant that builds a new list: critical_columns = critical_columns
\* + ['Toplam Net']
ConfigAfterCritical_copy(cfg, strict_mode) == cfg

\* critical_columns += ['Toplam Net'] extends, in place, the list that
\* critical_columns and Config.Cleaning.CRITICAL_COLUMNS both name
ConfigAfterCritical(cfg, strict_mode) ==
    IF strict_mode
    THEN [cfg EXCEPT !.CRITICAL_COLUMNS = Append(@, TotalSubject)]
    ELSE cfg

\* the list the call treats as critical
CriticalColumnsOf(cfg, strict_mode) ==
    IF strict_mode THEN Append(cfg.CRITICAL_COLUMNS, TotalSubject)
    ELSE cfg.CRITICAL_COLUMNS

\* df[critical_columns].isna().any(axis=1)
MissingCritical(row, critical_columns) ==
    \E k \in 1..Len(critical_columns) :
        IsNaN(CellOf(row, critical_columns[k]))

\* df[col].fillna(0) for the net columns with a missing value
FillNets(rows, cols, auto_fix) ==
    [i \in 1..Len(rows) |->
       [rows[i] EXCEPT !.net =
          [c \in DOMAIN @ |->
             IF auto_fix /\ ContainsNet(c) /\ IsNaN(@[c])
                /\ \E k \in 1..Len(cols) : cols[k] = c
             THEN Val(<<0, 1>>) ELSE @[c]]]]

\* cleaning_report['values_fixed'] += na_count over the net columns
ValuesFixed(rows, cols, auto_fix) ==
    IF ~auto_fix THEN 0
    ELSE SumSeq([k \in 1..Len(cols) |->
                   IF ContainsNet(cols[k])
                   THEN Cardinality({i \in 1..Len(rows) :
                                        IsNaN(rows[i].net[cols[k]])})
                   ELSE 0])

handle_missing_values(table, cfg, strict_mode, auto_fix) ==
    LET critical_columns == CriticalColumnsOf(cfg, strict_mode)
        kept == IF strict_mode
                THEN SelectSeq(table.rows,
                               LAMBDA r : ~MissingCritical(r, critical_columns))
                ELSE table.rows
    IN  IF \E k \in 1..Len(critical_columns) :
               critical_columns[k] \notin ColumnsOf(table)
        THEN Raised("KeyError")
        ELSE [kind |-> "frame",
              critical |-> critical_columns,
              table |-> [table EXCEPT
                           !.rows = FillNets(kept, table.netcols, auto_fix)],
              values_fixed |-> ValuesFixed(kept, table.netcols, auto_fix)]

-----------------------------------------------------------------------------
(* The table after a call.  The methods of both analyzers receive the      *)
(* caller's DataFrame; sort_values and dropna are called without           *)
(* inplace=True, so each returns a new object.                             *)

\* a variant with df.sort_values('Tarih', inplace=True)
AfterSortValues_inplace(table) == [table EXCEPT !.rows = SortByTarih(@)]

\* df.sort_values('Tarih'): df keeps its rows in their order
AfterSortValues(table) == table

\* a variant that drops the rows of a missing value from df
AfterDropNa_inplace(table, subject) ==
    [table EXCEPT !.rows = SelectSeq(@, LAMBDA r : ~IsNaN(r.net[subject]))]

\* df[subject].dropna(): df keeps its rows
AfterDropNa(table, subject) == table

DfAfterPrecompute(table) == AfterSortValues(table)

DfAfterStatistics(table, subject) ==
    IF ~HasColumn(table, subject) THEN table ELSE AfterDropNa(table, subject)

\* get_progression_trend sorts df and drops the missing values of the
\* sorted copy
DfAfterTrend(table, subject) ==
    IF ~HasColumn(table, subject) THEN table ELSE AfterSortValues(table)

DfAfterImprovement(table, subject) ==
    IF ~HasColumn(table, subject) THEN table ELSE AfterSortValues(table)

RECURSIVE DfAfterAllStatistics(_, _)
DfAfterAllStatistics(table, cols) ==
    IF cols = <<>> THEN table
    ELSE DfAfterAllStatistics(DfAfterStatistics(table, Head(cols)), Tail(cols))

RECURSIVE DfAfterAllTrends(_, _)
DfAfterAllTrends(table, cols) ==
    IF cols = <<>> THEN table
    ELSE DfAfterAllTrends(DfAfterTrend(table, Head(cols)), Tail(cols))

\* identify_weak_subjects and identify_strong_subjects: the statistics,
\* then the trends of every net column
DfAfterRanking(table) ==
    DfAfterAllTrends(DfAfterAllStatistics(table, NetColumns(table)),
                     NetColumns(table))

\* predict_next_exam: the trend, then the statistics
DfAfterPredict(table, subject) ==
    DfAfterStatistics(DfAfterTrend(table, subject), subject)

\* compare_to_target: the statistics and, unless they are empty, the trend
DfAfterCompare(table, subject) ==
    IF IsEmpty(calculate_statistics(table, subject))
    THEN DfAfterStatistics(table, subject)
    ELSE DfAfterTrend(DfAfterStatistics(table, subject), subject)

\* generate_summary_report: the sections in the order of the dict literal,
\* up to the one that raises
DfAfterReport(table) ==
    LET cols == NetColumns(table)
        t1 == DfAfterStatistics(table, TotalSubject)
        t2 == DfAfterAllTrends(DfAfterAllStatistics(t1, cols), cols)
        t3 == DfAfterRanking(t2)
    IN  IF WeakMeanColumnMissing(get_all_subjects_statistics(table)) THEN t3
        ELSE DfAfterImprovement(DfAfterRanking(t3), TotalSubject)

-----------------------------------------------------------------------------
(* Inputs *)

Bits(n) == [1..n -> {0, 1}]

\* the permutations of 1..n: the dates of n rows, pairwise distinct
Perms(n) == {f \in [1..n -> 1..n] : \A i, j \in 1..n : i # j => f[i] # f[j]}

NoLists == [c \in {} |-> NaN]
NoNets == [c \in {} |-> NaN]

\* an index entry over n exams dated 1..n
Entry(key, appearances) ==
    [key |-> key, appearances |-> appearances,
     dates |-> [i \in 1..Len(appearances) |-> i],
     exam_names |-> [i \in 1..Len(appearances) |-> i]]

\* --- one topic, every presence vector of 1..MaxVec exams
TopicKey == <<"Matematik", "Turev">>
QuerySubjects == {"Matematik", "matematik"}
QueryTopics == {"Turev", "Limit"}

\* --- study plans: up to three keys, two of them sharing a topic name
PlanKeys == {<<"Matematik", "Turev">>, <<"Matematik", "Limit">>,
             <<"Fen", "Turev">>}
PlanIndex(ks, vs) == [k \in 1..Len(ks) |-> Entry(ks[k], vs[k])]
FocusChoices == {<<>>, <<"Matematik">>, <<"Fen", "Matematik">>, <<"Sosyal">>}

\* --- tables of wrong-topic lists, rows in any order of pairwise distinct
\* dates
ListColumns == <<"Matematik", "Fen">>
MatCells == {NaN, Val(<<>>), Val(<<"Turev">>), Val(<<"Turev", "Limit">>)}
FenCells == {NaN, Val(<<"Turev">>)}
TopicTable(d, m, f) ==
    [netcols |-> <<>>, listcols |-> ListColumns,
     rows |-> [i \in 1..Len(d) |->
                 [Tarih |-> d[i], Deneme |-> d[i], net |-> NoNets,
                  lists |-> [c \in {"Matematik", "Fen"} |->
                               IF c = "Fen" THEN f[i] ELSE m[i]]]]]

\* --- tables of one net column: every table of up to MaxRows rows over
\* a few small scores, and the tables of the two scores 78 and 80
ScoreValues == {<<0, 1>>, <<1, 2>>, <<3, 5>>, <<9, 10>>}
NetCells == {NaN} \cup {Val(v) : v \in ScoreValues}
ExampleCells == {Val(<<78, 1>>), Val(<<80, 1>>)}
NetTable(d, y) ==
    [netcols |-> <<TotalSubject>>, listcols |-> <<>>,
     rows |-> [i \in 1..Len(d) |->
                 [Tarih |-> d[i], Deneme |-> d[i],
                  net |-> [c \in {TotalSubject} |-> y[i]],
                  lists |-> NoLists]]]
\* a table without any net column
BareTable(n) ==
    [netcols |-> <<>>, listcols |-> <<>>,
     rows |-> [i \in 1..n |->
                 [Tarih |-> i, Deneme |-> i, net |-> NoNets,
                  lists |-> NoLists]]]
\* --- series a + b * i over 2..MaxLinear exams, the rows in date order or
\* in reverse date order
LinearStarts == {<<0, 1>>, <<20, 1>>}
LinearSteps == {<<-2, 1>>, <<0, 1>>, <<1, 10>>, <<1, 2>>, <<2, 1>>, <<5, 1>>}
LinearTable(a, b, n, reversed) ==
    [netcols |-> <<TotalSubject, CorrectColumn>>, listcols |-> <<>>,
     rows |-> [i \in 1..n |->
                 LET date == IF reversed THEN n + 1 - i ELSE i IN
                 [Tarih |-> date, Deneme |-> date,
                  net |-> [c \in {TotalSubject, CorrectColumn} |->
                             IF c = TotalSubject
                             THEN Val(RAdd(a, RMul(b, RInt(date - 1))))
                             ELSE Val(RInt(date))],
                  lists |-> NoLists]]]
Targets == {<<0, 1>>, <<13, 20>>, <<2, 3>>, <<4, 5>>, <<100, 1>>}
NetSubjects == {TotalSubject}

\* --- tables of several net columns, rows in date order; the total is
\* the sum of the present nets
RankSubjects == <<"Matematik Net", "Fen Net", "Turkce Net">>
RankValues == {<<4, 1>>, <<10, 1>>}
RankCells == {Val(v) : v \in RankValues}
\* the last subject may lack a score
RankCellsOf(k) == IF k = 3 THEN RankCells \cup {NaN} ELSE RankCells
RankRowCells ==
    {c \in [1..3 -> RankCells \cup {NaN}] : \A k \in 1..3 : c[k] \in RankCellsOf(k)}
RankColumnSets == {<<>>, <<TotalSubject>>, <<TotalSubject>> \o RankSubjects}
TotalOf(cells) ==
    LET present == {k \in 1..Len(cells) : ~IsNaN(cells[k])}
    IN  IF present = {} THEN NaN
        ELSE Val(RSum([k \in 1..Len(cells) |->
                         IF IsNaN(cells[k]) THEN <<0, 1>> ELSE cells[k][1]]))
RankTable(cols, y) ==
    [netcols |-> cols, listcols |-> <<>>,
     rows |-> [i \in 1..Len(y) |->
                 [Tarih |-> i, Deneme |-> i,
                  net |-> [c \in {cols[k] : k \in 1..Len(cols)} |->
                             IF c = TotalSubject THEN TotalOf(y[i])
                             ELSE y[i][CHOOSE k \in 1..3 : RankSubjects[k] = c]],
                  lists |-> NoLists]]]

\* --- one exam of five subjects (an AYT sheet with an optional subject)
\* and their total
WideSubjects == <<"Matematik Net", "Fizik Net", "Kimya Net", "Biyoloji Net",
                  "Edebiyat Net">>
WideValues == {<<4, 1>>, <<7, 1>>, <<10, 1>>}
WideTable(y) ==
    [netcols |-> <<TotalSubject>> \o WideSubjects, listcols |-> <<>>,
     rows |-> <<[Tarih |-> 1, Deneme |-> 1,
                 net |-> [c \in {TotalSubject} \cup
                                {WideSubjects[k] : k \in 1..5} |->
                            IF c = TotalSubject
                            THEN Val(RSum([k \in 1..5 |-> y[k]]))
                            ELSE Val(y[CHOOSE k \in 1..5 : WideSubjects[k] = c])],
                 lists |-> NoLists]>>]

\* --- an analysis run: tables of a total net column and two wrong-topic
\* list columns, up to RunRows rows in any order of pairwise distinct dates
RunNetCells == {NaN, Val(<<1, 2>>)}
RunMatCells == {NaN, Val(<<"Turev">>)}
RunFenCells == {NaN, Val(<<"Turev">>)}
RunTable(d, y, m, f) ==
    [netcols |-> <<TotalSubject>>, listcols |-> ListColumns,
     rows |-> [i \in 1..Len(d) |->
                 [Tarih |-> d[i], Deneme |-> d[i],
                  net |-> [c \in {TotalSubject} |-> y[i]],
                  lists |-> [c \in {"Matematik", "Fen"} |->
                               IF c = "Fen" THEN f[i] ELSE m[i]]]]]

\* --- raw tables of the cleaner: up to CleanRows rows whose name, date
\* and total may be missing, with or without the total column
RawCells == {NaN, Val(1)}
RawNets == {NaN, Val(<<1, 2>>)}
RawTable(total, nm, dt, y) ==
    [netcols |-> IF total THEN <<TotalSubject>> ELSE <<>>,
     listcols |-> <<>>,
     rows |-> [i \in 1..Len(nm) |->
                 [Tarih |-> dt[i], Deneme |-> nm[i],
                  net |-> IF total THEN [c \in {TotalSubject} |-> y[i]]
                          ELSE NoNets,
                  lists |-> NoLists]]]

-----------------------------------------------------------------------------
(* The state machine: an analysis run holds a table and an index, and each *)
(* call leaves its result.                                                 *)

NoResult == [op |-> "none"]

\* calls are synchronous: one call at a time, and its result is taken
\* before the next call
Idle == result = NoResult

InitTopic ==
    /\ df = EmptyTable
    /\ \E n \in 1..MaxVec : \E v \in Bits(n) :
           precomputed = <<Entry(TopicKey, v)>>
    /\ result = NoResult
    /\ config = DefaultConfig

InitPlan ==
    /\ df = EmptyTable
    /\ \E ks \in DistinctSeqs(PlanKeys, 3) :
       \E vs \in [1..Len(ks) -> Bits(PlanExams)] :
           precomputed = PlanIndex(ks, vs)
    /\ result = NoResult
    /\ config = DefaultConfig

InitIndex ==
    /\ \E n \in 0..MaxExams :
       \E d \in Perms(n), m \in [1..n -> MatCells], f \in [1..n -> FenCells] :
           df = TopicTable(d, m, f)
    /\ precomputed = <<>>
    /\ result = NoResult
    /\ config = DefaultConfig

InitNet ==
    /\ \/ \E n \in 0..MaxRows :
             \/ \E d \in Perms(n) :
                \E y \in [1..n -> NetCells] \cup [1..n -> ExampleCells] :
                    df = NetTable(d, y)
             \/ df = BareTable(n)
       \/ \E a \in LinearStarts, b \in LinearSteps, n \in 2..MaxLinear,
             reversed \in BOOLEAN :
              df = LinearTable(a, b, n, reversed)
    /\ precomputed = <<>>
    /\ result = NoResult
    /\ config = DefaultConfig

InitRun ==
    /\ \E n \in 0..RunRows :
       \E d \in Perms(n), y \in [1..n -> RunNetCells],
          m \in [1..n -> RunMatCells], f \in [1..n -> RunFenCells] :
           df = RunTable(d, y, m, f)
    /\ precomputed = <<>>
    /\ result = NoResult
    /\ config = DefaultConfig

InitClean ==
    /\ \E n \in 0..CleanRows, total \in BOOLEAN :
       \E nm \in [1..n -> RawCells], dt \in [1..n -> RawCells],
          y \in [1..n -> RawNets] :
           df = RawTable(total, nm, dt, y)
    /\ precomputed = <<>>
    /\ result = NoResult
    /\ config = DefaultConfig

InitRank ==
    /\ \/ \E n \in 0..RankRows :
          \E cols \in RankColumnSets, y \in [1..n -> RankRowCells] :
              df = RankTable(cols, y)
       \/ \E y \in [1..5 -> WideValues] : df = WideTable(y)
    /\ precomputed = <<>>
    /\ result = NoResult
    /\ config = DefaultConfig

Precompute ==
    /\ Idle
    /\ precomputed' = _precompute_all_topic_trends(df)
    /\ result' = [op |-> "_precompute_all_topic_trends"]
    /\ df' = DfAfterPrecompute(df)
    /\ UNCHANGED config

TopicTrend ==
    \E s \in QuerySubjects, t \in QueryTopics :
        /\ Idle
        /\ result' = [op |-> "get_topic_trend_by_exam", subject |-> s,
                      topic |-> t,
                      out |-> get_topic_trend_by_exam(precomputed, s, t)]
        /\ precomputed' = IndexAfterTrend(precomputed, s, t)
        /\ UNCHANGED <<df, config>>

StudyPlan ==
    \E focus \in FocusChoices, m \in 0..MaxTopicsBound :
        /\ Idle
        /\ result' = [op |-> "generate_study_plan", focus |-> focus,
                      max |-> m,
                      out |-> generate_study_plan(precomputed, focus, m)]
        /\ precomputed' = IndexAfterPlan(precomputed, focus, m)
        /\ UNCHANGED <<df, config>>

Statistics ==
    \E s \in NetSubjects :
        /\ Idle
        /\ result' = [op |-> "calculate_statistics", subject |-> s,
                      out |-> calculate_statistics(df, s)]
        /\ df' = DfAfterStatistics(df, s)
        /\ UNCHANGED <<precomputed, config>>

AllStatistics ==
    /\ Idle
    /\ result' = [op |-> "get_all_subjects_statistics",
                  out |-> [kind |-> "frame",
                           rows |-> get_all_subjects_statistics(df)]]
    /\ df' = DfAfterAllStatistics(df, NetColumns(df))
    /\ UNCHANGED <<precomputed, config>>

Trend ==
    \E s \in NetSubjects :
        /\ Idle
        /\ result' = [op |-> "get_progression_trend", subject |-> s,
                      out |-> get_progression_trend(df, s)]
        /\ df' = DfAfterTrend(df, s)
        /\ UNCHANGED <<precomputed, config>>

Improvement ==
    \E s \in NetSubjects, w \in 1..MaxWindow :
        /\ Idle
        /\ result' = [op |-> "calculate_improvement_rate", subject |-> s,
                      window |-> w,
                      out |-> calculate_improvement_rate(df, s, w)]
        /\ df' = DfAfterImprovement(df, s)
        /\ UNCHANGED <<precomputed, config>>

Consistency ==
    \E s \in NetSubjects :
        /\ Idle
        /\ result' = [op |-> "calculate_consistency_score", subject |-> s,
                      out |-> calculate_consistency_score(df, s)]
        /\ df' = DfAfterStatistics(df, s)
        /\ UNCHANGED <<precomputed, config>>

Predict ==
    \E s \in NetSubjects :
        /\ Idle
        /\ result' = [op |-> "predict_next_exam", subject |-> s,
                      out |-> predict_next_exam(df, s)]
        /\ df' = DfAfterPredict(df, s)
        /\ UNCHANGED <<precomputed, config>>

CompareToTarget ==
    \E s \in NetSubjects, t \in Targets :
        /\ Idle
        /\ result' = [op |-> "compare_to_target", subject |-> s,
                      target |-> t,
                      out |-> compare_to_target(df, t, s)]
        /\ df' = DfAfterCompare(df, s)
        /\ UNCHANGED <<precomputed, config>>

WeakSubjects ==
    /\ Idle
    /\ result' = [op |-> "identify_weak_subjects",
                  out |-> identify_weak_subjects(df)]
    /\ df' = DfAfterRanking(df)
    /\ UNCHANGED <<precomputed, config>>

StrongSubjects ==
    /\ Idle
    /\ result' = [op |-> "identify_strong_subjects",
                  out |-> identify_strong_subjects(df)]
    /\ df' = DfAfterRanking(df)
    /\ UNCHANGED <<precomputed, config>>

SummaryReport ==
    /\ Idle
    /\ result' = [op |-> "generate_summary_report",
                  out |-> generate_summary_report(df)]
    /\ df' = DfAfterReport(df)
    /\ UNCHANGED <<precomputed, config>>

\* DataCleaner(config, strict_mode, auto_fix).handle_missing_values(df);
\* the list of critical columns is let grow to MaxCritical entries
HandleMissingValues ==
    \E strict_mode \in BOOLEAN, auto_fix \in BOOLEAN :
        /\ Idle
        /\ Len(ConfigAfterCritical(config, strict_mode).CRITICAL_COLUMNS)
              <= MaxCritical
        /\ result' = [op |-> "handle_missing_values",
                      strict_mode |-> strict_mode, auto_fix |-> auto_fix,
                      out |-> handle_missing_values(df, config, strict_mode,
                                                    auto_fix)]
        /\ config' = ConfigAfterCritical(config, strict_mode)
        /\ UNCHANGED <<df, precomputed>>

\* the caller takes the result of the finished call
TakeResult ==
    /\ ~Idle
    /\ result' = NoResult
    /\ UNCHANGED <<df, precomputed, config>>

NextTopic == TopicTrend \/ TakeResult
NextPlan == StudyPlan \/ TakeResult
NextIndex == Precompute \/ TakeResult
NextNet == Statistics \/ AllStatistics \/ Trend \/ Improvement \/ Consistency
           \/ Predict \/ CompareToTarget \/ TakeResult
NextRank == WeakSubjects \/ StrongSubjects \/ SummaryReport \/ TakeResult
NextClean == HandleMissingValues \/ TakeResult
NextRun == Precompute \/ TopicTrend \/ StudyPlan \/ Statistics
           \/ AllStatistics \/ Trend \/ Improvement \/ Consistency
           \/ Predict \/ CompareToTarget \/ WeakSubjects \/ StrongSubjects
           \/ SummaryReport \/ TakeResult

SpecTopic == InitTopic /\ [][NextTopic]_vars
SpecPlan == InitPlan /\ [][NextPlan]_vars
SpecIndex == InitIndex /\ [][NextIndex]_vars
SpecNet == InitNet /\ [][NextNet]_vars
SpecRank == InitRank /\ [][NextRank]_vars
SpecRun == InitRun /\ [][NextRun]_vars
SpecClean == InitClean /\ [][NextClean]_vars

-----------------------------------------------------------------------------
(* Properties *)

TrendReturned ==
    result.op = "get_progression_trend" /\ ~IsEmpty(result.out)

\* C1: the trend label of get_progression_trend is decided by (p-value,
\* slope) alone, first match wins: p >= 0.05 gives 'Statistically
\* insignificant'; else slope > 0.5 'Strong Increase', slope > 0.1 'Slight
\* Increase', slope < -0.5 'Strong Decrease', slope < -0.1 'Slight
\* Decrease', otherwise 'Stable'; the comparisons are strict and the label
\* is never 'Uncertain'.
C1_TrendLabel ==
    TrendReturned =>
        LET p == result.out.slope[1]
            q == result.out.slope[2]
            label == result.out.trend
        IN  /\ ~result.out.p_below => label = Insignificant
            /\ result.out.p_below =>
                  /\ 2 * p > q => label = StrongIncrease
                  /\ (2 * p <= q /\ 10 * p > q) => label = SlightIncrease
                  /\ (10 * p <= q /\ 2 * p < -q) => label = StrongDecrease
                  /\ (10 * p <= q /\ 2 * p >= -q /\ 10 * p < -q)
                        => label = SlightDecrease
                  /\ (10 * p <= q /\ 10 * p >= -q) => label = Stable
            /\ label \in {Insignificant, StrongIncrease, SlightIncrease,
                          StrongDecrease, SlightDecrease, Stable}

\* a significant fit of slope exactly 0.5, labelled 'Slight Increase'
C1_Witness ==
    /\ TrendReturned
    /\ result.out.p_below
    /\ result.out.slope = <<1, 2>>
    /\ result.out.trend = SlightIncrease

TopicTrendReturned ==
    /\ result.op = "get_topic_trend_by_exam"
    /\ <<result.subject, result.topic>> = TopicKey
    /\ \E i \in 1..Len(precomputed[1].appearances) :
           precomputed[1].appearances[i] = 1

\* the quantities of the topic classification, counted on the vector v
\* with positions 1..n (the index of position i is i - 1)
Ones(v) == {i \in 1..Len(v) : v[i] = 1}
LastOne(v) == CHOOSE i \in Ones(v) : \A j \in Ones(v) : j <= i
FirstOne(v) == CHOOSE i \in Ones(v) : \A j \in Ones(v) : i <= j
RecentOnes(v) ==
    LET w == IF Len(v) \div 4 >= 1 THEN Len(v) \div 4 ELSE 1
    IN  {i \in Ones(v) : i > Len(v) - w}
WindowOf(v) == IF Len(v) \div 4 >= 1 THEN Len(v) \div 4 ELSE 1
\* frequency > 1, last index > 0.75 n, mean gap < n / frequency
RepeatingHolds(v) ==
    /\ Cardinality(Ones(v)) > 1
    /\ 4 * (LastOne(v) - 1) > 3 * Len(v)
    /\ (LastOne(v) - FirstOne(v)) * Cardinality(Ones(v))
          < Len(v) * (Cardinality(Ones(v)) - 1)
\* recent_count / w > frequency / n
DenserRecently(v) ==
    Cardinality(RecentOnes(v)) * Len(v) > Cardinality(Ones(v)) * WindowOf(v)

\* C2 as stated: 'worsening' only when the 'repeating' conditions hold
\* too: 'improving' if recent_count = 0; else, under the repeating
\* conditions, 'worsening' if the recent density exceeds the overall
\* density and 'repeating' if not; else 'stable'.
C2_WorseningOnlyIfRepeating ==
    TopicTrendReturned =>
        LET v == precomputed[1].appearances IN
        result.out.trend =
            IF RecentOnes(v) = {} THEN Gelisiyor
            ELSE IF RepeatingHolds(v)
            THEN (IF DenserRecently(v) THEN Kotulesiyor ELSE Tekrarliyor)
            ELSE Sabit

\* C2 amended: 'improving' if recent_count = 0; else, for frequency > 1,
\* 'worsening' whenever the recent density exceeds the overall density,
\* whether or not the repeating conditions hold, and 'repeating' when they
\* hold and it does not; else 'stable'.
C2_WorseningByDensity ==
    TopicTrendReturned =>
        LET v == precomputed[1].appearances IN
        result.out.trend =
            IF RecentOnes(v) = {} THEN Gelisiyor
            ELSE IF Cardinality(Ones(v)) > 1 /\ DenserRecently(v)
            THEN Kotulesiyor
            ELSE IF RepeatingHolds(v) THEN Tekrarliyor
            ELSE Sabit

\* 'worsening' returned although the repeating conditions fail
C2_Witness ==
    /\ TopicTrendReturned
    /\ result.out.trend = Kotulesiyor
    /\ ~RepeatingHolds(precomputed[1].appearances)

PlanReturned ==
    /\ result.op = "generate_study_plan"
    /\ result.out # PlaceholderPlan

\* the presence vector stored under a key, its sum, and the occurrences of
\* a topic name over all subjects
VectorSum(index, key) == SumSeq(Lookup(index, key).appearances)
TotalFrequency(index, topic) ==
    SumSeq([k \in 1..Len(index) |->
              IF index[k].key[2] = topic THEN SumSeq(index[k].appearances)
              ELSE 0])
EmittedTopics(plan, s) == {plan[s][k].konu : k \in 1..Len(plan[s])}

\* C3: every entry emitted under a subject s for a topic t has as its
\* frequency the sum of the presence vector stored under (s, t), also
\* when the topic name occurs under several subjects.
C3_FrequencyIsVectorSum ==
    PlanReturned =>
        \A s \in DOMAIN result.out : \A k \in 1..Len(result.out[s]) :
            LET e == result.out[s][k] IN
            /\ KeyIn(precomputed, <<s, e.konu>>)
            /\ e.frekans = VectorSum(precomputed, <<s, e.konu>>)

\* C4: at most max_topics_per_subject entries under each subject, and no
\* topic of the subject that is left out of its list has a strictly higher
\* total frequency than an emitted one.
C4_TopTopicsPerSubject ==
    PlanReturned =>
        \A s \in DOMAIN result.out :
            /\ Len(result.out[s]) <= result.max
            /\ \A key \in KeysOf(precomputed) :
                  (/\ key[1] = s
                   /\ VectorSum(precomputed, key) > 0
                   /\ key[2] \notin EmittedTopics(result.out, s))
                  => \A k \in 1..Len(result.out[s]) :
                        TotalFrequency(precomputed, key[2])
                            <= result.out[s][k].frekans

IndexBuilt == result.op = "_precompute_all_topic_trends"

\* the row of the i-th exam in ascending date order
RowOfRank(table, i) ==
    LET rows == table.rows IN
    rows[CHOOSE r \in 1..Len(rows) :
           Cardinality({q \in 1..Len(rows) :
                          rows[q].Tarih < rows[r].Tarih}) = i - 1]
\* topic t is in the wrong-topic list of subject s in the row
InList(row, s, t) ==
    /\ ~IsNaN(row.lists[s])
    /\ \E k \in 1..Len(row.lists[s][1]) : row.lists[s][1][k] = t
AllTopicNames == {"Turev", "Limit"}
AllListSubjects == {"Matematik", "Fen"}

\* C5: the index has key (s, t) iff t occurs in some row's list of s, no
\* key twice, every presence vector has one flag per row, and flag i is 1
\* iff t is in the list of s for the i-th exam in ascending date order.
C5_IndexMatchesTable ==
    IndexBuilt =>
        /\ \A s \in AllListSubjects, t \in AllTopicNames :
              KeyIn(precomputed, <<s, t>>)
                 <=> \E r \in 1..Len(df.rows) : InList(df.rows[r], s, t)
        /\ \A j, k \in 1..Len(precomputed) :
              precomputed[j].key = precomputed[k].key => j = k
        /\ \A k \in 1..Len(precomputed) :
              /\ precomputed[k].key[1] \in AllListSubjects
              /\ precomputed[k].key[2] \in AllTopicNames
              /\ Len(precomputed[k].appearances) = Len(df.rows)
              /\ \A i \in 1..Len(df.rows) :
                    precomputed[k].appearances[i] =
                        IF InList(RowOfRank(df, i), precomputed[k].key[1],
                                  precomputed[k].key[2])
                        THEN 1 ELSE 0

\* an index built from rows that are not in date order, with a topic under
\* both subjects and a vector holding a 1 before a 0
C5_Witness ==
    /\ IndexBuilt
    /\ \E r \in 1..(Len(df.rows) - 1) : df.rows[r].Tarih > df.rows[r + 1].Tarih
    /\ KeyIn(precomputed, <<"Matematik", "Turev">>)
    /\ KeyIn(precomputed, <<"Fen", "Turev">>)
    /\ \E k \in 1..Len(precomputed) :
          /\ precomputed[k].appearances[1] = 1
          /\ precomputed[k].appearances[Len(df.rows)] = 0

\* the number of non-missing observations of a subject, 0 for an absent
\* column
Observations(table, subject) ==
    IF ~HasColumn(table, subject) THEN 0
    ELSE Cardinality({r \in 1..Len(table.rows) :
                        ~IsNaN(table.rows[r].net[subject])})

NetCallReturned ==
    result.op \in {"calculate_statistics", "calculate_consistency_score",
                   "compare_to_target", "get_progression_trend",
                   "predict_next_exam", "calculate_improvement_rate"}

\* C6: the per-subject methods never raise for missing or insufficient
\* data: statistics, consistency score and target comparison are empty
\* for an absent column or no observation, trend and prediction also for
\* fewer than 2 observations, the improvement rate for fewer than
\* `window` observations.
C6_SoftFailure ==
    NetCallReturned =>
        LET m == Observations(df, result.subject) IN
        /\ ~IsRaised(result.out)
        /\ (result.op \in {"calculate_statistics",
                            "calculate_consistency_score",
                            "compare_to_target"} /\ m = 0)
              => IsEmpty(result.out)
        /\ (result.op \in {"get_progression_trend", "predict_next_exam"}
              /\ m < 2) => IsEmpty(result.out)
        /\ (result.op = "calculate_improvement_rate" /\ m < result.window)
              => IsEmpty(result.out)

\* a prediction asked for a subject with exactly one observation
C6_Witness ==
    /\ result.op = "predict_next_exam"
    /\ Observations(df, result.subject) = 1
    /\ IsEmpty(result.out)

\* no net column has a non-missing value
NoStatistics(table) ==
    \A k \in 1..Len(table.netcols) : Observations(table, table.netcols[k]) = 0

\* C7: when the table yields no per-subject statistics at all,
\* identify_weak_subjects returns an empty list without raising and
\* generate_summary_report completes with empty sections.
C7_NoStatisticsNoFailure ==
    NoStatistics(df) =>
        /\ result.op = "identify_weak_subjects"
              => result.out = [kind |-> "list", items |-> <<>>]
        /\ result.op = "generate_summary_report"
              => (/\ result.out.kind = "report"
                  /\ result.out.weak_subjects = <<>>
                  /\ result.out.strong_subjects = <<>>)

CompareReturned ==
    result.op = "compare_to_target" /\ ~IsEmpty(result.out)

\* the slope fitted for the subject of the call: NaN when no trend can
\* be fitted
FittedSlope ==
    IF IsEmpty(get_progression_trend(df, result.subject)) THEN NaN
    ELSE Val(get_progression_trend(df, result.subject).slope)

\* C8: gap = target - latest; for a fitted slope > 0, exams_needed =
\* ceil(gap / slope) and achievable iff gap <= 10 * slope iff
\* exams_needed <= 10; for a slope <= 0 or no fit, exams_needed is None
\* and achievable is false.  Target 100, latest 80, slope 2 give gap 20,
\* exams_needed 10, achievable.
C8_ExamsNeeded ==
    CompareReturned =>
        LET out == result.out
            sl == FittedSlope
        IN  /\ out.gap = RSub(result.target, out.current)
            /\ (~IsNaN(sl) /\ sl[1][1] > 0) =>
                  /\ ~IsNaN(out.exams_needed)
                  /\ LET k == out.exams_needed[1] IN
                     \* k - 1 < gap / slope <= k
                     /\ RLt(RMul(RInt(k - 1), sl[1]), out.gap)
                     /\ RLe(out.gap, RMul(RInt(k), sl[1]))
                     /\ out.achievable <=> k <= 10
                  /\ out.achievable <=> RLe(out.gap, RMul(RInt(10), sl[1]))
            /\ (IsNaN(sl) \/ sl[1][1] <= 0) =>
                  /\ IsNaN(out.exams_needed)
                  /\ ~out.achievable
            /\ (result.target = <<100, 1>> /\ out.current = <<80, 1>>
                   /\ sl = Val(<<2, 1>>)) =>
                  /\ out.gap = <<20, 1>>
                  /\ out.exams_needed = Val(10)
                  /\ out.achievable

\* target 100, latest 80, slope 2: the gap is exactly 10 * slope
C8_Witness ==
    /\ CompareReturned
    /\ result.target = <<100, 1>>
    /\ result.out.current = <<80, 1>>
    /\ FittedSlope = Val(<<2, 1>>)
    /\ result.out.exams_needed = Val(10)
    /\ result.out.achievable

\* C9: the status is decided by gap and gap_percentage (gap / target *
\* 100, 0 for target 0) alone, first match wins: gap <= 0 'target
\* exceeded', else gap_percentage < 10 'very close', else < 25 'going
\* well', else 'needs more work'; exactly 10% is 'going well', exactly 25%
\* 'needs more work'.
C9_Status ==
    CompareReturned =>
        LET out == result.out
            g == out.gap
            t == result.target
            \* gap_percentage as a fraction pn / pd with pd > 0
            pn == IF t[1] = 0 THEN 0
                  ELSE IF t[1] > 0 THEN 100 * g[1] * t[2]
                  ELSE -100 * g[1] * t[2]
            pd == IF t[1] = 0 THEN 1
                  ELSE IF t[1] > 0 THEN g[2] * t[1]
                  ELSE -g[2] * t[1]
        IN  /\ out.gap_percentage[1] * pd = pn * out.gap_percentage[2]
            /\ g[1] <= 0 => out.status = TargetExceeded
            /\ (g[1] > 0 /\ pn < 10 * pd) => out.status = VeryClose
            /\ (g[1] > 0 /\ pn >= 10 * pd /\ pn < 25 * pd)
                  => out.status = GoingWell
            /\ (g[1] > 0 /\ pn >= 25 * pd) => out.status = StudyMore

\* a gap of exactly 10% of the target
C9_Witness ==
    /\ CompareReturned
    /\ result.out.gap[1] > 0
    /\ result.out.gap_percentage = <<10, 1>>
    /\ result.out.status = GoingWell

\* the non-total subjects with data, in column order, and their means
SubjectsWithData(table) ==
    SelectSeq(table.netcols,
              LAMBDA c : c # TotalSubject /\ Observations(table, c) > 0)
MeanOfSubject(table, c) == RMean(DropNa(table.rows, c))[1]
MedianOfMeans(table) ==
    RMedian([k \in 1..Len(SubjectsWithData(table)) |->
               MeanOfSubject(table, SubjectsWithData(table)[k])])

\* C10: identify_weak_subjects returns exactly the non-total subjects
\* whose mean is strictly below the median of the means of all non-total
\* subjects with data, in ascending order of mean, each with its mean,
\* latest value and trend label.
C10_WeakSubjects ==
    result.op = "identify_weak_subjects" =>
        /\ result.out.kind = "list"
        /\ LET items == result.out.items
               subs == SubjectsWithData(df)
               weak == {k \in 1..Len(subs) :
                          RLt(MeanOfSubject(df, subs[k]),
                              MedianOfMeans(df)[1])}
           IN  /\ {items[k].subject : k \in 1..Len(items)}
                     = {subs[k] : k \in weak}
               /\ Len(items) = Cardinality(weak)
               /\ \A k \in 1..(Len(items) - 1) :
                     RLe(items[k].mean, items[k + 1].mean)
               /\ \A k \in 1..Len(items) :
                     /\ items[k].mean = MeanOfSubject(df, items[k].subject)
                     /\ items[k].latest
                          = calculate_statistics(df, items[k].subject).latest
                     /\ items[k].trend = TrendOf(df, items[k].subject)

\* the 75th percentile of the means of the non-total subjects with data
Q75OfMeans(table) ==
    RQuantile([k \in 1..Len(SubjectsWithData(table)) |->
                 MeanOfSubject(table, SubjectsWithData(table)[k])], 3, 4)
SubjectsIn(items) == {items[k].subject : k \in 1..Len(items)}

\* C11: identify_strong_subjects returns exactly the non-total subjects
\* whose mean is at or above the 75th percentile of the means of all
\* non-total subjects with data, in descending order of mean, and the empty
\* list, without failing, when no non-total subject has statistics.
C11_StrongSubjects ==
    result.op = "identify_strong_subjects" =>
        /\ result.out.kind = "list"
        /\ LET items == result.out.items
               subs == SubjectsWithData(df)
               strong == {k \in 1..Len(subs) :
                            RLe(Q75OfMeans(df)[1],
                                MeanOfSubject(df, subs[k]))}
           IN  /\ SubjectsIn(items) = {subs[k] : k \in strong}
               /\ Len(items) = Cardinality(strong)
               /\ \A k \in 1..(Len(items) - 1) :
                     RLe(items[k + 1].mean, items[k].mean)
               /\ \A k \in 1..Len(items) :
                     items[k].mean = MeanOfSubject(df, items[k].subject)
               /\ (subs = <<>> => items = <<>>)

\* two strong subjects of different means, the better one first
C11_Witness ==
    /\ result.op = "identify_strong_subjects"
    /\ Len(result.out.items) = 2
    /\ RLt(result.out.items[2].mean, result.out.items[1].mean)
    /\ Len(SubjectsWithData(df)) = 5

\* C12: no subject is returned both by identify_weak_subjects and by
\* identify_strong_subjects on the same table.
C12_WeakStrongDisjoint ==
    /\ (result.op = "identify_weak_subjects" /\ ~IsRaised(result.out)) =>
           SubjectsIn(result.out.items)
             \cap SubjectsIn(identify_strong_subjects(df).items) = {}
    /\ (result.op = "identify_strong_subjects"
          /\ ~IsRaised(identify_weak_subjects(df))) =>
           SubjectsIn(result.out.items)
             \cap SubjectsIn(identify_weak_subjects(df).items) = {}

\* a table with weak subjects and with strong subjects
C12_Witness ==
    /\ result.op = "identify_weak_subjects"
    /\ ~IsRaised(result.out)
    /\ result.out.items # <<>>
    /\ identify_strong_subjects(df).items # <<>>

\* the non-missing scores of the subject of the call, in date order
SeriesByDate == DropNa(SortByTarih(df.rows), result.subject)
IsLinearSeries(y) ==
    \A i \in 1..(Len(y) - 1) : RSub(y[i + 1], y[i]) = RSub(y[2], y[1])

\* C13: for date-ordered scores a + b * i, i = 0..n-1, n >= 2, the trend
\* has slope b, intercept a, next_prediction a + b * n and
\* total_improvement b * (n - 1); [20, 22, 24, 26, 28] gives slope 2,
\* next_prediction 30, total_improvement 8 and 'Strong Increase'.
C13_LinearSeries ==
    (/\ result.op = "get_progression_trend"
     /\ HasColumn(df, result.subject)
     /\ Len(SeriesByDate) >= 2
     /\ IsLinearSeries(SeriesByDate)) =>
        LET y == SeriesByDate
            n == Len(y)
            a == y[1]
            b == RSub(y[2], y[1])
        IN  /\ ~IsEmpty(result.out)
            /\ result.out.slope = b
            /\ result.out.intercept = a
            /\ result.out.next_prediction = RAdd(a, RMul(b, RInt(n)))
            /\ result.out.total_improvement = RMul(b, RInt(n - 1))
            /\ (y = <<<<20, 1>>, <<22, 1>>, <<24, 1>>, <<26, 1>>, <<28, 1>>>>
                  => /\ result.out.slope = <<2, 1>>
                     /\ result.out.next_prediction = <<30, 1>>
                     /\ result.out.total_improvement = <<8, 1>>
                     /\ result.out.trend = StrongIncrease)

\* the trend of [20, 22, 24, 26, 28]
C13_Witness ==
    /\ result.op = "get_progression_trend"
    /\ ~IsEmpty(result.out)
    /\ SeriesByDate = <<<<20, 1>>, <<22, 1>>, <<24, 1>>, <<26, 1>>, <<28, 1>>>>
    /\ result.out.trend = StrongIncrease

\* the table with its rows in ascending / descending date order
RowsByDate(table) == [table EXCEPT !.rows = SortByTarih(table.rows)]
RowsByDateReversed(table) ==
    [table EXCEPT !.rows =
        [i \in 1..Len(table.rows) |->
           SortByTarih(table.rows)[Len(table.rows) + 1 - i]]]

\* C14: get_progression_trend returns the same result for every order of
\* the same rows of pairwise distinct dates: the result on a table is the
\* result on its rows in date order and in reverse date order.
C14_RowOrderIndependent ==
    result.op = "get_progression_trend" =>
        /\ result.out = get_progression_trend(RowsByDate(df), result.subject)
        /\ result.out
             = get_progression_trend(RowsByDateReversed(df), result.subject)

\* a trend of three scores, not all equal, of a table that is not in date
\* order
C14_Witness ==
    /\ result.op = "get_progression_trend"
    /\ ~IsEmpty(result.out)
    /\ df.rows # SortByTarih(df.rows)
    /\ Len(SeriesByDate) >= 3
    /\ ~RIsZero(result.out.total_improvement)

\* the non-missing scores of the subject of the call, in table order
SeriesInTable == DropNa(df.rows, result.subject)
IsConstantSeries(y) == \A i \in 1..Len(y) : y[i] = y[1]
StatisticsReturned ==
    result.op = "calculate_statistics" /\ ~IsEmpty(result.out)

\* C15 as stated: the coefficient of variation of a subject with data is
\* 0 if and only if the mean of its observations is 0.
C15_CvZeroIffMeanZero ==
    StatisticsReturned =>
        (CvIsZero(result.out.cv) <=> RIsZero(result.out.mean))

\* C15 amended: the coefficient of variation is 0 if and only if the mean
\* is 0 or the subject has at least two observations that are all equal;
\* with a single observation of non-zero mean it is undefined (NaN).
C15_CvZeroIffMeanZeroOrConstant ==
    StatisticsReturned =>
        /\ CvIsZero(result.out.cv)
             <=> \/ RIsZero(result.out.mean)
                 \/ Len(SeriesInTable) >= 2 /\ IsConstantSeries(SeriesInTable)
        /\ result.out.cv.nan
             <=> ~RIsZero(result.out.mean) /\ Len(SeriesInTable) = 1

\* a constant series of two or more non-zero scores has cv = 0
C15_Witness ==
    /\ StatisticsReturned
    /\ Len(SeriesInTable) >= 2
    /\ IsConstantSeries(SeriesInTable)
    /\ ~RIsZero(result.out.mean)
    /\ CvIsZero(result.out.cv)

\* the numeric columns with 'Net' in their name and a non-missing value
ColumnsWithStatistics(table) ==
    {table.netcols[k] : k \in {j \in 1..Len(table.netcols) :
        /\ ContainsNet(table.netcols[j])
        /\ Observations(table, table.netcols[j]) >= 1}}

\* C16: calculate_statistics returns empty for 0 observations, and
\* otherwise a result with skewness and kurtosis exactly for 3 or more
\* observations; get_all_subjects_statistics has a row exactly for the
\* columns with 'Net' in their name and at least one non-missing value.
C16_SkewnessAndRows ==
    /\ (result.op = "calculate_statistics" /\ HasColumn(df, result.subject)) =>
           /\ IsEmpty(result.out) <=> Observations(df, result.subject) = 0
           /\ ~IsEmpty(result.out) =>
                 (result.out.has_skewness
                    <=> Observations(df, result.subject) >= 3)
    /\ result.op = "get_all_subjects_statistics" =>
           LET rows == result.out.rows IN
           /\ {rows[k].subject : k \in 1..Len(rows)}
                 = ColumnsWithStatistics(df)
           /\ Len(rows) = Cardinality(ColumnsWithStatistics(df))
           /\ \A k \in 1..Len(rows) :
                 rows[k].stats = calculate_statistics(df, rows[k].subject)

\* the statistics frame of a table that has a column without 'Net' in its
\* name, and one row with skewness
C16_Witness ==
    /\ result.op = "get_all_subjects_statistics"
    /\ HasColumn(df, CorrectColumn)
    /\ Len(result.out.rows) = 1
    /\ result.out.rows[1].stats.has_skewness

Percentage(part, whole) == RMul(RDiv(part, whole), RInt(100))

\* C17: no method fails on a zero divisor, each substitutes 0: cv for a
\* zero mean, improvement_percentage for a zero earliest value,
\* percentage_change for a zero previous-window mean, gap_percentage for a
\* zero target; compare_to_target divides by the slope only when it is
\* > 0. Otherwise total_improvement = last - first and
\* improvement_percentage = (last - first) / first * 100 over the
\* date-ordered observations.
C17_ZeroDivisors ==
    /\ NetCallReturned => ~IsRaised(result.out)
    /\ (StatisticsReturned /\ RIsZero(result.out.mean)) =>
           CvIsZero(result.out.cv)
    /\ TrendReturned =>
           LET y == SeriesByDate
               change == RSub(y[Len(y)], y[1])
           IN  /\ result.out.total_improvement = change
               /\ result.out.improvement_percentage
                     = IF RIsZero(y[1]) THEN <<0, 1>>
                       ELSE Percentage(change, y[1])
    /\ (result.op = "calculate_improvement_rate" /\ ~IsEmpty(result.out)) =>
           result.out.percentage_change
             = IF RIsZero(result.out.previous_mean) THEN <<0, 1>>
               ELSE Percentage(result.out.absolute_change,
                               result.out.previous_mean)
    /\ CompareReturned =>
           /\ result.out.gap_percentage
                 = IF RIsZero(result.target) THEN <<0, 1>>
                   ELSE Percentage(result.out.gap, result.target)
           /\ (IsNaN(FittedSlope) \/ RLe(FittedSlope[1], <<0, 1>>)) =>
                 (IsNaN(result.out.exams_needed) /\ ~result.out.achievable)

\* a comparison with the target 0 of a subject whose latest value is not 0
C17_Witness ==
    /\ CompareReturned
    /\ RIsZero(result.target)
    /\ ~RIsZero(result.out.gap)
    /\ result.out.gap_percentage = <<0, 1>>

ImprovementReturned ==
    result.op = "calculate_improvement_rate" /\ ~IsEmpty(result.out)

\* the windows of the claim over the date-ordered observations y
RecentOf(y, w) == SubSeq(y, Len(y) - w + 1, Len(y))
PreviousOf(y, w) ==
    IF Len(y) >= 2 * w THEN SubSeq(y, Len(y) - 2 * w + 1, Len(y) - w)
    ELSE SubSeq(y, 1, w)

\* C18: with m >= w date-ordered observations, the recent window is the
\* last w observations and the previous window the w observations right
\* before them when m >= 2w, else the first w observations; the means and
\* absolute_change = recent_mean - previous_mean are taken over these
\* windows, and consistency_improved holds iff the standard deviation of
\* the recent window is strictly smaller than that of the previous one.
C18_Windows ==
    /\ (result.op = "calculate_improvement_rate"
          /\ HasColumn(df, result.subject)) =>
           (IsEmpty(result.out) <=> Len(SeriesByDate) < result.window)
    /\ ImprovementReturned =>
           LET recent == RecentOf(SeriesByDate, result.window)
               previous == PreviousOf(SeriesByDate, result.window)
           IN  /\ result.out.recent_mean = RMean(recent)[1]
               /\ result.out.previous_mean = RMean(previous)[1]
               /\ result.out.absolute_change
                     = RSub(RMean(recent)[1], RMean(previous)[1])
               /\ result.out.consistency_improved
                     <=> /\ ~IsNaN(RVar(recent))
                         /\ ~IsNaN(RVar(previous))
                         /\ RLt(RVar(recent)[1], RVar(previous)[1])

\* five observations and window 2: the previous window is neither the
\* first two observations nor of the same mean
C18_Witness ==
    /\ ImprovementReturned
    /\ result.window = 2
    /\ Len(SeriesByDate) = 5
    /\ result.out.previous_mean # RMean(SubSeq(SeriesByDate, 1, 2))[1]

\* C19: the absolute mean change c falls in exactly one band: c > 5
\* significant improvement, 2 < c <= 5 good, -2 < c <= 2 stable, c <= -2
\* regression warning; c = 5 is good, c = 2 stable, c = -2 regression.
C19_Bands ==
    ImprovementReturned =>
        LET c == result.out.absolute_change IN
        result.out.interpretation
          = IF RLt(<<5, 1>>, c) THEN "Great"
            ELSE IF RLt(<<2, 1>>, c) /\ RLe(c, <<5, 1>>) THEN "Good"
            ELSE IF RLt(<<-2, 1>>, c) /\ RLe(c, <<2, 1>>)
                 THEN "Stable performance"
            ELSE "Warning"

\* a change of exactly 5
C19_Witness ==
    /\ ImprovementReturned
    /\ result.out.absolute_change = <<5, 1>>
    /\ result.out.interpretation = "Good"

ConsistencyReturned ==
    result.op = "calculate_consistency_score" /\ ~IsEmpty(result.out)

\* the square of a defined cv with the sign of the cv: an increasing
\* function of the cv
SignedSquare(cv) == IF cv.neg THEN RNeg(cv.sq) ELSE cv.sq
CvBelow(cv, k) == RLt(SignedSquare(cv), RInt(k * k))

\* the score of the claim for a defined cv
BandScore(cv) ==
    IF CvBelow(cv, 10) THEN 5
    ELSE IF CvBelow(cv, 20) THEN 4
    ELSE IF CvBelow(cv, 30) THEN 3
    ELSE IF CvBelow(cv, 40) THEN 2
    ELSE 1

\* series to compare a result with: one or two of the small scores
ComparedSeries == UNION {[1..n -> ScoreValues] : n \in 1..2}
ScoreOfSeries(y) == ConsistencyOf(TotalSubject, StatisticsOf(y, RSorted(y)))

\* the integer part of the signed square; c1 <= c2 implies
\* CvFloor(c1) <= CvFloor(c2)
CvFloor(cv) == SignedSquare(cv)[1] \div SignedSquare(cv)[2]

\* C20: the consistency score of a subject with data is 5 for cv < 10, 4
\* for 10 <= cv < 20, 3 for 20 <= cv < 30, 2 for 30 <= cv < 40 and 1 for
\* cv >= 40; it is always in 1..5, it never increases when the cv
\* increases, and a subject of mean 0 gets 5.
C20_ConsistencyScore ==
    ConsistencyReturned =>
        /\ result.out.score \in 1..5
        /\ ~result.out.cv.nan => result.out.score = BandScore(result.out.cv)
        /\ RIsZero(result.out.mean) => result.out.score = 5
        /\ ~result.out.cv.nan =>
              \A y \in ComparedSeries :
                  LET other == ScoreOfSeries(y)
                  IN  (/\ ~other.cv.nan
                       /\ CvFloor(result.out.cv) <= CvFloor(other.cv))
                      => other.score <= result.out.score

\* a cv of exactly 20
C20_Witness ==
    /\ ConsistencyReturned
    /\ ~result.out.cv.nan
    /\ SignedSquare(result.out.cv) = <<400, 1>>
    /\ result.out.score = 3

AnyTopicTrendReturned == result.op = "get_topic_trend_by_exam"

\* C21: for a presence vector with at least one 1, if none of the last
\* max(1, n div 4) flags is 1 the trend is 'improving (not repeated
\* recently)', whatever the frequency and the gaps; a topic wrong in exams
\* 1, 2, 3 of 10 is 'improving'.
C21_ImprovingWhenNotRecent ==
    TopicTrendReturned =>
        LET v == precomputed[1].appearances IN
        RecentOnes(v) = {} => result.out.trend = Gelisiyor

\* the topic wrong in exams 1, 2, 3 of 10
C21_Witness ==
    /\ TopicTrendReturned
    /\ precomputed[1].appearances = <<1, 1, 1, 0, 0, 0, 0, 0, 0, 0>>
    /\ result.out.trend = Gelisiyor
    /\ result.out.frekans = 3

\* C22: get_topic_trend_by_exam reports 'no data' when the (subject,
\* topic) key is absent from the index, keys matching by exact
\* case-sensitive equality of both strings, and 'never repeated' when the
\* key is present and its presence vector has no 1; it raises in neither
\* case.
C22_NoDataAndNeverRepeated ==
    AnyTopicTrendReturned =>
        LET present == \E k \in 1..Len(precomputed) :
                          /\ precomputed[k].key[1] = result.subject
                          /\ precomputed[k].key[2] = result.topic
            ones == {k \in 1..Len(precomputed) :
                        /\ precomputed[k].key = <<result.subject, result.topic>>
                        /\ Ones(precomputed[k].appearances) # {}}
        IN  /\ ~present => result.out = [trend |-> VeriYok]
            /\ (present /\ ones = {}) =>
                   result.out = [trend |-> HicTekrarlanmamis]
            /\ (present /\ ones # {}) =>
                   result.out.trend \notin {VeriYok, HicTekrarlanmamis}

\* a query that differs from the key of the index only by the case of a
\* letter of the subject
C22_Witness ==
    /\ AnyTopicTrendReturned
    /\ result.subject = "matematik"
    /\ result.topic = TopicKey[2]
    /\ precomputed[1].key = TopicKey
    /\ result.out = [trend |-> VeriYok]

\* the rank of a priority in the plan: high, medium, low
PriorityRank(p) == IF p = Yuksek THEN 1 ELSE IF p = Orta THEN 2 ELSE 3

\* C23: in every subject list of the plan the priority of an entry is high
\* iff its frequency >= 3, medium iff it is 2, low iff it is 1; entries
\* are ordered high, medium, low and, within a priority, by descending
\* frequency; the order fields of the k entries are 1, 2, ..., k.
C23_PriorityAndOrder ==
    PlanReturned =>
        \A s \in DOMAIN result.out :
            LET items == result.out[s] IN
            /\ \A k \in 1..Len(items) :
                  /\ items[k].oncelik \in {Yuksek, Orta, Dusuk}
                  /\ items[k].oncelik = Yuksek <=> items[k].frekans >= 3
                  /\ items[k].oncelik = Orta <=> items[k].frekans = 2
                  /\ items[k].oncelik = Dusuk <=> items[k].frekans = 1
                  /\ items[k].sira = k
            /\ \A j, k \in 1..Len(items) :
                  j < k =>
                     /\ PriorityRank(items[j].oncelik)
                           <= PriorityRank(items[k].oncelik)
                     /\ items[j].oncelik = items[k].oncelik =>
                           items[j].frekans >= items[k].frekans

\* a list of a high entry followed by a lower one
C23_Witness ==
    /\ PlanReturned
    /\ \E s \in DOMAIN result.out :
          /\ Len(result.out[s]) = 2
          /\ result.out[s][1].oncelik = Yuksek
          /\ result.out[s][2].oncelik # Yuksek
          /\ result.out[s][1].sira = 1
          /\ result.out[s][2].sira = 2

AnyPlanReturned == result.op = "generate_study_plan"

\* no entry of the index has an occurrence
NoOccurrence(index) ==
    \A k \in 1..Len(index) : Ones(index[k].appearances) = {}

\* C24: when no entry of the index has any occurrence (the index is empty
\* or every presence vector sums to 0) the plan has exactly one
\* placeholder entry (frequency 0, low priority, order 1) under a single
\* general key, for every focus_subjects and max_topics_per_subject.
C24_Placeholder ==
    (AnyPlanReturned /\ NoOccurrence(precomputed)) =>
        /\ DOMAIN result.out = {"Genel"}
        /\ Len(result.out["Genel"]) = 1
        /\ result.out["Genel"][1].frekans = 0
        /\ result.out["Genel"][1].oncelik = Dusuk
        /\ result.out["Genel"][1].sira = 1
        /\ result.out["Genel"][1].konu
              = "Harika! Calisilacak acil bir konu bulunamadi."

\* an index of two keys whose vectors hold no 1, a focus list and a limit
\* of 0 topics per subject
C24_Witness ==
    /\ AnyPlanReturned
    /\ Len(precomputed) = 2
    /\ NoOccurrence(precomputed)
    /\ result.focus # <<>>
    /\ result.max = 0
    /\ DOMAIN result.out = {"Genel"}

\* C28: for every index in which a topic has an occurrence and every
\* max_topics_per_subject >= 1 the plan is non-empty: at least one subject
\* key with at least one entry, also when focus_subjects names only
\* subjects that own none of the topics.
C28_PlanNeverEmpty ==
    (AnyPlanReturned /\ ~NoOccurrence(precomputed) /\ result.max >= 1) =>
        \E s \in DOMAIN result.out : Len(result.out[s]) >= 1

\* C25: no analysis operation mutates its inputs: every call of a
\* NetAnalyzer method and of _precompute_all_topic_trends leaves the table
\* (rows, row order, columns, values) as it was, and every call of
\* get_topic_trend_by_exam and generate_study_plan leaves the index with
\* the same keys and presence vectors; a lookup of an absent key adds no
\* entry.  (_precompute_all_topic_trends returns the index of the run.)
C25_InputsNotMutated ==
    [][/\ df' = df
       /\ result'.op # "_precompute_all_topic_trends"
             => precomputed' = precomputed]_vars

\* a lookup of an absent key in a built index, on a table whose rows are
\* not in date order and hold a missing score
C25_Witness ==
    /\ result.op = "get_topic_trend_by_exam"
    /\ precomputed # <<>>
    /\ ~KeyIn(precomputed, <<result.subject, result.topic>>)
    /\ \E r \in 1..(Len(df.rows) - 1) : df.rows[r].Tarih > df.rows[r + 1].Tarih
    /\ \E r \in 1..Len(df.rows) : IsNaN(df.rows[r].net[TotalSubject])

\* C26: 'latest' and 'first' of calculate_statistics, and therefore
\* 'current' and the gap of compare_to_target, are the scores of the
\* chronologically latest and earliest non-missing exams, for every row
\* order of the table: compare_to_target measures its gap from the last
\* observation get_progression_trend fits its slope to.
C26_LatestByDate ==
    /\ StatisticsReturned =>
           /\ result.out.latest = SeriesByDate[Len(SeriesByDate)]
           /\ result.out.first = SeriesByDate[1]
    /\ CompareReturned =>
           /\ result.out.current = SeriesByDate[Len(SeriesByDate)]
           /\ result.out.gap
                 = RSub(result.target, SeriesByDate[Len(SeriesByDate)])

\* C27: the two notions of recency of get_topic_trend_by_exam agree for
\* every vector length n >= 1: whenever the topic occurs in the recent
\* window (one of the last max(1, n div 4) flags is 1), its last
\* occurrence index passes the final-quartile test, last index > 0.75 * n,
\* of the 'repeating' rule.
C27_RecencyNotionsAgree ==
    (TopicTrendReturned /\ RecentOnes(precomputed[1].appearances) # {}) =>
        4 * result.out.son_gorulme_index > 3 * result.out.toplam_deneme

\* the positions, in the date-ordered observations, of the windows the
\* result was computed from: the last w and, for fewer than 2w
\* observations, the first w
RecentPositions == (Len(SeriesByDate) - result.window + 1)..Len(SeriesByDate)
HeadPositions == 1..result.window

\* C29: with at least window but fewer than 2 * window observations the
\* recent and the previous window share observations; with exactly window
\* observations both are the same observations, so absolute_change = 0,
\* consistency_improved is false and the interpretation is 'Stable
\* performance', whatever the scores.
C29_OverlappingWindows ==
    (ImprovementReturned /\ Len(SeriesByDate) < 2 * result.window) =>
        /\ result.out.recent_mean
              = RMean([k \in 1..result.window |->
                         SeriesByDate[Len(SeriesByDate) - result.window + k]])[1]
        /\ result.out.previous_mean
              = RMean([k \in HeadPositions |-> SeriesByDate[k]])[1]
        /\ RecentPositions \cap HeadPositions # {}
        /\ Len(SeriesByDate) = result.window =>
              /\ RecentPositions = HeadPositions
              /\ result.out.absolute_change = <<0, 1>>
              /\ result.out.percentage_change = <<0, 1>>
              /\ ~result.out.consistency_improved
              /\ result.out.interpretation = "Stable performance"

\* exactly window = 3 observations that differ: one window, read twice
C29_Witness ==
    /\ ImprovementReturned
    /\ result.window = 3
    /\ Len(SeriesByDate) = 3
    /\ SeriesByDate[1] # SeriesByDate[3]
    /\ result.out.absolute_change = <<0, 1>>
    /\ result.out.interpretation = "Stable performance"

MissingValuesHandled == result.op = "handle_missing_values"

\* C30: handle_missing_values leaves the shared configuration unchanged:
\* after any number of calls, on cleaners in strict or non-strict mode,
\* Config.Cleaning.CRITICAL_COLUMNS is still ['Deneme Adi', 'Tarih'], so
\* the columns a later call treats as critical do not depend on earlier
\* calls.
C30_ConfigUnchanged ==
    /\ config.CRITICAL_COLUMNS = <<NameColumn, DateColumn>>
    /\ (MissingValuesHandled /\ ~IsRaised(result.out)) =>
           result.out.critical
             = IF result.strict_mode
               THEN <<NameColumn, DateColumn, TotalSubject>>
               ELSE <<NameColumn, DateColumn>>

====
